---- MODULE Spec2Model ----
(***************************************************************************)
(* KopifilesNAS: the copy engine (copy_process.py, CopyProcess.copy_files)  *)
(* run by the background job controller (cli.py, CopyState), with the      *)
(* per-file metadata step of file_processor.py (FileProcessor.process_file).*)
(***************************************************************************)
EXTENDS Integers, Sequences, FiniteSets, TLC

\* ------------------------------------------------------------------ bounds
\* Number of jobs start() may launch in one behaviour.
MaxJobs == 2
\* Number of files in the source tree of a run of the copy engine.
MaxFiles == 2
\* Number of files in the source tree of a job of the controller.
MaxJobFiles == 1

\* Number of files the worker of the statement-level model walks over.
MaxLockFiles == 1

\* Number of _append_event calls in a behaviour of the event log.
MaxAppends == 502

\* Number of points in the first document of the location archive.
MaxDocLen == 3
\* The query timestamps of the archive run from 0 to MaxTime.
MaxTime == 4
\* Number of times one part of the archive may be parsed in a behaviour.
MaxParses == 2

\* Number of files on the flash drive that _inspect_flash walks over.
MaxFlashFiles == 2

\* Number of iterations of the watcher's loop in a behaviour.
MaxPolls == 4

\* Number of records in a month document of the archive.
MaxRecs == 2
\* Number of files of that month a run copies.
MaxMonthFiles == 2

\* --------------------------------------------------------------- constants
None == "None"

\* copy_process.py:15-16
DEFAULT_PHOTO_EXT == <<".jpg", ".jpeg", ".png", ".gif", ".bmp", ".tiff">>
DEFAULT_VIDEO_EXT == <<".mp4", ".avi", ".mov", ".mkv">>
\* file_processor.py:18-19
PHOTO_EXT == <<".jpg", ".jpeg", ".png", ".gif", ".bmp", ".tiff">>
VIDEO_EXT == <<".mp4", ".avi", ".mov", ".mkv", ".srt">>

\* The placeholder city of process_file and the sentinel of
\* get_city_from_coordinates (ASCII stand-ins for the two literals).
OTHER_CITY == "Other"
UNKNOWN_CITY == "Unknown city"
\* A file that carries no coordinates.
NoCoords == "no-coords"

\* cli.py:319-321, the cap of the event log.
EVENTS_CAP == 500

Range(s) == {s[i] : i \in DOMAIN s}

\* str.lower() on the extensions that occur here.
Lower(ext) ==
  CASE ext = ".JPG" -> ".jpg"
    [] ext = ".MP4" -> ".mp4"
    [] OTHER -> ext

\* ------------------------------------------------------------- source tree
\* The directories os.walk visits, top-down: the root, then its subfolder.
DirPaths == <<"SRC", "SRC/sub">>
Dirs == DOMAIN DirPaths

D1 == [year |-> 2024, month |-> 3, day |-> 5]
D2 == [year |-> 2023, month |-> 12, day |-> 31]

\* The (year, month) keys of the two dates.
M1 == <<2024, 3>>
M2 == <<2023, 12>>
MonthKeys == {M1, M2}

\* The files a source tree is built from.  mtime is the date of st_mtime;
\* gps is what the file's own coordinates resolve to through
\* get_city_from_coordinates (NoCoords: EXIF GPS / sidecar text has none);
\* arch and glob are what the month archive and the global archive resolve
\* the file's timestamp to.
FileUniverse == <<
  [base |-> "IMG_0001",  ext |-> ".jpg", mtime |-> D1, gps |-> "Paris",
   arch |-> UNKNOWN_CITY, glob |-> UNKNOWN_CITY],
  [base |-> "IMG_0002",  ext |-> ".JPG", mtime |-> D2, gps |-> NoCoords,
   arch |-> "Rome", glob |-> "Rome"],
  [base |-> "CLIP_0001", ext |-> ".mp4", mtime |-> D1, gps |-> NoCoords,
   arch |-> UNKNOWN_CITY, glob |-> UNKNOWN_CITY],
  [base |-> "CLIP_0001", ext |-> ".srt", mtime |-> D1, gps |-> "Paris",
   arch |-> UNKNOWN_CITY, glob |-> UNKNOWN_CITY],
  [base |-> "NOTE",      ext |-> ".txt", mtime |-> D2, gps |-> NoCoords,
   arch |-> "Rome", glob |-> "Rome"] >>

RECURSIVE Listing(_, _)
\* The files with index in S, in index order from i on: one directory listing.
Listing(S, i) ==
  IF i > Len(FileUniverse) THEN <<>>
  ELSE IF i \in S THEN <<FileUniverse[i]>> \o Listing(S, i + 1)
  ELSE Listing(S, i + 1)

\* Every tree of at most n files over the two directories.
Trees(n) ==
  { [d \in Dirs |-> Listing(c[d], 1)] :
      c \in { c \in [Dirs -> SUBSET (DOMAIN FileUniverse)] :
                Cardinality(c[1]) + Cardinality(c[2]) <= n } }

\* The allowed_formats a CopyProcess is built with: Optional[List[str]], here
\* [given |-> FALSE] for None and [given |-> TRUE, exts |-> the list].
NoFormats == [given |-> FALSE, exts |-> <<>>]
AllowedChoices ==
  { NoFormats, [given |-> TRUE, exts |-> <<>>], [given |-> TRUE, exts |-> <<".JPG">>] }

fname(f) == f.base \o f.ext
\* os.path.join(root, fname)
src_path(d, f) == DirPaths[d] \o "/" \o fname(f)

\* os.path.exists(os.path.splitext(src_path)[0] + ".srt")
SrtOf(tree, d, f) == { g \in Range(tree[d]) : g.base = f.base /\ g.ext = ".srt" }

\* ------------------------------------------------- FileProcessor.process_file
\* file_processor.py:174-240.  The result is [ok, dt, city, location_found];
\* ok = FALSE is the early return of line 187, a 2-tuple the caller cannot
\* unpack into three names.
process_file(tree, d, f, use_arch, allowed) ==
  LET ext == Lower(f.ext)
      isPhoto == ext \in Range(PHOTO_EXT)
      isVideo == ~isPhoto /\ ext \in Range(VIDEO_EXT)
      srts == IF ext = ".srt" THEN {f} ELSE SrtOf(tree, d, f)
      srtCity == IF srts = {} THEN NoCoords ELSE (CHOOSE g \in srts : TRUE).gps
      \* line 195-214
      photo ==
        IF f.gps # NoCoords
        THEN [city |-> IF f.gps = UNKNOWN_CITY /\ use_arch THEN f.arch ELSE f.gps,
              found |-> TRUE]
        ELSE IF use_arch THEN [city |-> f.arch, found |-> TRUE]
        ELSE [city |-> OTHER_CITY, found |-> FALSE]
      \* line 217-227
      video0 ==
        IF srtCity # NoCoords THEN [city |-> srtCity, found |-> TRUE]
        ELSE [city |-> OTHER_CITY, found |-> FALSE]
      video ==
        IF video0.city = OTHER_CITY /\ use_arch
        THEN [city |-> f.arch, found |-> TRUE]
        ELSE video0
      r == IF isPhoto THEN photo
           ELSE IF isVideo THEN video
           ELSE [city |-> OTHER_CITY, found |-> FALSE]
      \* line 230-233
      city == IF r.city \in {UNKNOWN_CITY, ""} /\ f.glob \notin {"", UNKNOWN_CITY}
              THEN f.glob ELSE r.city
  IN IF allowed # <<>> /\ ext \notin Range(allowed) /\ ext # ".srt"
     THEN [ok |-> FALSE, dt |-> f.mtime, city |-> "", location_found |-> FALSE]
     ELSE [ok |-> TRUE, dt |-> f.mtime, city |-> city, location_found |-> r.found]

\* ------------------------------------------------------ destination naming
\* A month or day written without zero padding.
Pad2_plain(n) == ToString(n)

\* f"{n:02d}"
Pad2(n) == IF n < 10 THEN "0" \o ToString(n) ELSE ToString(n)

\* copy_process.py:84-89
base_folder(dt, city, location_found, use_arch) ==
  LET ymd == ToString(dt.year) \o "-" \o Pad2(dt.month) \o "-" \o Pad2(dt.day)
  IN IF location_found \/ use_arch
     THEN ymd \o "-" \o (IF city = "" THEN OTHER_CITY ELSE city)
     ELSE ymd

\* copy_process.py:90-96
dest_folder(dest_dir, dt, city, location_found, use_arch, ext) ==
  LET dest_base == dest_dir \o "/" \o ToString(dt.year) \o "/"
                     \o base_folder(dt, city, location_found, use_arch)
  IN IF ext \in Range(DEFAULT_VIDEO_EXT) THEN dest_base \o "/" \o "Videos"
     ELSE dest_base

\* ------------------------------------------------------- copy_files, a file
\* copy_process.py:44-47
AllowedList(allowed_formats) ==
  IF ~allowed_formats.given THEN DEFAULT_PHOTO_EXT \o DEFAULT_VIDEO_EXT
  ELSE [i \in DOMAIN allowed_formats.exts |-> Lower(allowed_formats.exts[i])]

\* A walk without extension filter.
Eligible_all(allowed, ext) == TRUE

\* copy_process.py:68-71: the file passes the extension filter.
Eligible(allowed, ext) ==
  ~(allowed # <<>> /\ ext \notin Range(allowed) /\ ext # ".srt")

\* A copy that does not look whether the destination path exists.
DestExists_never(dst, p) == FALSE

\* copy_process.py:102: os.path.exists(dest_path)
DestExists(dst, p) == p \in DOMAIN dst

\* progress_callback(kind, src, dest, ts, error=...)
Ev(kind, src, dst, err) == [kind |-> kind, src |-> src, dest |-> dst, error |-> err]

Faults == {"none", "early", "sidecar"}

\* An except clause that does not count the error.
OnError_silent(c) == c

\* copy_process.py:123-126: what the except clause adds to the counters.
OnError(c) == [c EXCEPT !.errors = @ + 1]

\* copy_process.py:73-126, one eligible file: the destination tree, the
\* counters and the callbacks after it, and the writes it made into the
\* destination tree, each with whether its path existed just before.  fault says where an exception is
\* raised: "early" in process_file, makedirs or the copy of the file itself,
\* "sidecar" in the copy of the video's .srt.
FileOutcome(tree, d, f, use_arch, allowed, dest_dir, dst, c0, fault) ==
  LET ext == Lower(f.ext)
      src == src_path(d, f)
      c1 == [c0 EXCEPT !.processed = @ + 1]
      m == process_file(tree, d, f, use_arch, allowed)
      folder == dest_folder(dest_dir, m.dt, m.city, m.location_found, use_arch, ext)
      dest_path == folder \o "/" \o fname(f)
      exists == DestExists(dst, dest_path)
      dst1 == IF exists THEN dst ELSE (dest_path :> src) @@ dst
      c2 == IF exists THEN [c1 EXCEPT !.skipped = @ + 1]
            ELSE [c1 EXCEPT !.copied = @ + 1]
      cb1 == IF exists THEN Ev("skipped", src, dest_path, None)
             ELSE Ev("copied", src, dest_path, None)
      srts == IF ext \in Range(DEFAULT_VIDEO_EXT) THEN SrtOf(tree, d, f) ELSE {}
      srt == CHOOSE g \in srts : TRUE
      srt_dest == folder \o "/" \o fname(srt)
      w1 == IF exists THEN {}
            ELSE {[path |-> dest_path, src |-> src, existed |-> dest_path \in DOMAIN dst]}
  IN IF fault = "early" \/ ~m.ok
     THEN [dest |-> dst, c |-> OnError(c1),
           cbs |-> <<Ev("error", src, None, "exc")>>, writes |-> {}]
     ELSE IF srts = {}
     THEN [dest |-> dst1, c |-> c2, cbs |-> <<cb1>>, writes |-> w1]
     ELSE IF fault = "sidecar"
     THEN [dest |-> dst1, c |-> OnError(c2),
           cbs |-> <<cb1, Ev("error", src, None, "exc")>>, writes |-> w1]
     ELSE [dest |-> (srt_dest :> src_path(d, srt)) @@ dst1, c |-> c2,
           cbs |-> <<cb1, Ev("copied", src_path(d, srt), folder, None)>>,
           writes |-> w1 \cup {[path |-> srt_dest, src |-> src_path(d, srt),
                                 existed |-> srt_dest \in DOMAIN dst1]}]

\* ----------------------------------------------------------------- state
VARIABLES
  src_tree,            \* the source tree: [Dirs -> the directory's files]
  use_archive,         \* USE_ARCHIVE of the job configuration
  allowed_formats,     \* allowed_formats_override of the jobs
  dest,                \* the destination tree: path -> the source it holds
  running,             \* CopyState._running
  thread,              \* CopyState._thread: <<>> or <<job>>
  stop_event,          \* CopyState._stop_event: <<>> or <<job>>
  last_started,        \* CopyState._last_started
  last_finished,       \* CopyState._last_finished
  last_error,          \* CopyState._last_error
  last_result,         \* CopyState._last_result: <<>> or <<summary>>
  last_mode,           \* CopyState._last_mode
  current_total,       \* CopyState._current_total: <<>> or <<n>>
  current_copied,      \* CopyState._current_copied: <<>> or <<n>>
  stop_requested_flag, \* CopyState._stop_requested_flag
  events,              \* cli._events
  ev_set,              \* the threading.Event of each job: is it set
  w,                   \* the worker thread of each job (_run and its locals)
  njobs,               \* threads created so far
  emitted,             \* the progress_callback calls of the job's copy_files
  writes,              \* the writes the job's copy_files made into dest
  stop_true,           \* whether a stop() returned True during the job
  dest_after,          \* dest when the job's copy_files returned
  prev_result,         \* last_result as the job before this one left it
  prev_dest,           \* dest_after as the job before this one left it
  polled,              \* a file iteration of the job began after stop() returned True
  preset,              \* the stop signal was set when the job's walk began
  appended,            \* _append_event calls since the last _reset_events: <<n>>,
                       \* <<>> while the log is as _load_events left it
  lock,                \* the thread that holds CopyState._lock, or "free"
  caller,              \* where the thread calling start() is in it
  reader,              \* where the thread calling snapshot() is in it
  view,                \* the CopyStateView that snapshot() is filling in
  wk,                  \* the worker, statement by statement
  store,               \* geocache.json: the members of its JSON object
  fp_cache,            \* FileProcessor.location_cache
  lh_cache,            \* LocationHistory.cache
  geo,                 \* the last get_city_from_coordinates call and its answer
  resolved,            \* what the geocoding tiers resolved since construction
  readable,            \* geocache.json can be opened and parsed
  raised,              \* the last constructor or lookup call raised
  env,                 \* whether the offline tier, the online tier and the
                       \* writes of geocache.json succeed at present
  archive,             \* the location archive: its mode and its documents
  month_hist_cache,    \* FileProcessor._month_hist_cache
  global_pts,          \* LocationHistory._global: <<>> or <<points>>
  parsed,              \* how often each part of the archive was parsed
  near,                \* the last get_city_for_timestamp call and its answer
  file_in,             \* the file process_file is called with: <<>> or <<input>>
  extracted,           \* what process_file returned for it: <<>> or <<result>>
  elock,               \* the thread that holds cli._events_lock, or "free"
  evreader,            \* where the thread serving GET /events is in it
  flash,               \* _inspect_flash: the directory and the locals of its walk
  watch,               \* watcher.main: config.txt, the clock and the locals of the loop
  parse                \* a month document of the archive and the files copied with it

vars == << src_tree, use_archive, allowed_formats, dest, running, thread,
           stop_event, last_started, last_finished, last_error, last_result,
           last_mode, current_total, current_copied, stop_requested_flag,
           events, ev_set, w, njobs, emitted, writes, stop_true,
           dest_after, prev_result, prev_dest, polled, preset, appended,
           lock, caller, reader, view, wk, store, fp_cache, lh_cache, geo,
           resolved, readable, raised, env, archive, month_hist_cache, global_pts,
           parsed, near, file_in, extracted, elock, evreader, flash, watch,
           parse >>

lock_vars == << lock, caller, reader, view, wk >>
geo_vars == << store, fp_cache, lh_cache, geo, resolved, readable, raised,
              env >>
arch_vars == << archive, month_hist_cache, global_pts, parsed, near >>
extract_vars == << file_in, extracted >>
side_vars == << elock, evreader, flash, watch, parse >>

inputs == << src_tree, use_archive, allowed_formats >>
job_state == << running, thread, stop_event, last_started, last_finished,
                last_error, last_result, last_mode, current_total,
                current_copied, stop_requested_flag >>

Jobs == 1..MaxJobs

\* cli.py:359, 395, 434 and the message of an exception of a constructor.
ALREADY_RUNNING == "already running"
NOT_RUNNING == "not running"
NO_PATHS == "no source or destination"
CTOR_FAILED == "constructor raised"

\* The job configurations start() is called with: SRC or DST may be missing.
Configs == { [SRC |-> "SRC", DST |-> "DST"], [SRC |-> "", DST |-> "DST"],
             [SRC |-> "SRC", DST |-> ""] }

\* copy_process.py:49-55
Summary0 == [processed |-> 0, copied |-> 0, skipped |-> 0, errors |-> 0,
             stopped |-> FALSE]

\* The end of the walk.
End == <<0, 0>>

RECURSIVE NextPos(_, _, _)
\* The first file at or after place fi of directory di in os.walk's order.
NextPos(tree, di, fi) ==
  IF di > Len(DirPaths) THEN End
  ELSE IF fi <= Len(tree[di]) THEN <<di, fi>>
  ELSE NextPos(tree, di + 1, 1)

\* A walk that does not poll the stop signal.
StopObserved_never(j) == FALSE

\* copy_process.py:61-62: the stop signal is seen set.
StopObserved(j) == ev_set[j]

\* A walk whose inner loop breaks and whose outer loop goes on with the
\* next directory.
AfterStop_next_dir(tree, di) == NextPos(tree, di + 1, 1)

\* copy_process.py:64, 67, 128-129: where the walk goes on after a stop.
AfterStop(tree, di) == End

\* cli.py:82-96, the candidates of _count_source_files: <<>> or <<n>>.
count_source_files(tree, src_dir, formats) ==
  IF src_dir = "" THEN <<>>
  ELSE LET allowed == {Lower(e) : e \in Range(formats)}
           cand == { <<d, i>> \in Dirs \X (1..Len(FileUniverse)) :
                       /\ i <= Len(tree[d])
                       /\ \/ Lower(tree[d][i].ext) \in allowed
                          \/ Lower(tree[d][i].ext) = ".srt" }
       IN <<Cardinality(cand)>>

\* An _append_event that keeps the oldest entries and drops the new one.
append_event_oldest(log, e) ==
  LET l == Append(log, e)
  IN IF Len(l) > EVENTS_CAP THEN SubSeq(l, 1, EVENTS_CAP) ELSE l

\* An _append_event that does not record the event.
append_event_drop(log, e) == log

\* cli.py:307-322
append_event(log, e) ==
  LET l == Append(log, e)
  IN IF Len(l) > EVENTS_CAP THEN SubSeq(l, Len(l) - EVENTS_CAP + 1, Len(l)) ELSE l

RECURSIVE append_events(_, _)
append_events(log, es) ==
  IF es = <<>> THEN log ELSE append_events(append_event(log, Head(es)), Tail(es))

\* cli.py:444-449: current_copied after the callbacks es.
copied_after(cc, es) ==
  LET n == Cardinality({i \in DOMAIN es : es[i].kind = "copied"})
  IN IF n = 0 THEN cc ELSE IF cc = <<>> THEN <<n>> ELSE <<cc[1] + n>>

Worker0 == [pc |-> "none", cfg |-> [SRC |-> "", DST |-> ""], at |-> End,
            summary |-> Summary0, result |-> <<>>, msg |-> "none"]

\* The view of a CopyState nobody has started, the worker that does not
\* exist yet, and no get_city_from_coordinates call so far.
View0 ==
  [running |-> FALSE, stop_requested |-> FALSE, last_started |-> None,
   last_finished |-> None, last_error |-> None, last_result |-> <<>>,
   last_mode |-> None, current_total |-> <<>>, current_copied |-> <<>>]
Wk0 == [pc |-> "none", job |-> 0, left |-> 0, result |-> <<>>]
Geo0 == [by |-> "none", key |-> "", city |-> "", tiers |-> {}]
Env0 == [offline |-> TRUE, online |-> TRUE, disk |-> TRUE]
NoArchive == [mode |-> "dir", files |-> <<>>]
Parsed0 == [month |-> [m \in MonthKeys |-> 0], glob |-> 0]
Near0 == [ts |-> 0, pts |-> <<>>, best |-> <<>>, city |-> ""]

\* cli.py:307-322, 301-305: the count of appends since the last reset,
\* after k more of them.
bump(a, k) == IF a = <<>> THEN a ELSE <<a[1] + k>>

\* No geocache.json, and the caches FileProcessor and LocationHistory load
\* then (file_processor.py:41-45, location_history.py:56-60).
GeoIdle ==
  /\ store = <<>>
  /\ fp_cache = <<>>
  /\ lh_cache = <<>>
  /\ geo = Geo0
  /\ resolved = {}
  /\ readable = TRUE
  /\ raised = FALSE
  /\ env = Env0

\* No archive read and no file processed yet (file_processor.py:37,
\* location_history.py:54).
ArchIdle ==
  /\ archive = NoArchive
  /\ month_hist_cache = <<>>
  /\ global_pts = <<>>
  /\ parsed = Parsed0
  /\ near = Near0

ExtractIdle ==
  /\ file_in = <<>>
  /\ extracted = <<>>

\* The events lock is free, and no flash drive is inspected, no watcher
\* runs and no archive document is read.
SideIdle ==
  /\ elock = "free"
  /\ evreader = "idle"
  /\ flash = <<>>
  /\ watch = <<>>
  /\ parse = <<>>

\* CopyState.__init__ (cli.py:342-354) and the event log that _load_events
\* (cli.py:283-292, 324) left, with the inputs of the behaviour drawn from
\* the given sets.
CopyInit(trees, archive_modes, formats, logs) ==
  /\ src_tree \in trees
  /\ use_archive \in archive_modes
  /\ allowed_formats \in formats
  /\ dest = <<>>
  /\ running = FALSE
  /\ thread = <<>>
  /\ stop_event = <<>>
  /\ last_started = None
  /\ last_finished = None
  /\ last_error = None
  /\ last_result = <<>>
  /\ last_mode = None
  /\ current_total = <<>>
  /\ current_copied = <<>>
  /\ stop_requested_flag = FALSE
  /\ events \in logs
  /\ ev_set = [j \in Jobs |-> FALSE]
  /\ w = [j \in Jobs |-> Worker0]
  /\ njobs = 0
  /\ emitted = <<>>
  /\ writes = {}
  /\ stop_true = FALSE
  /\ dest_after = <<>>
  /\ prev_result = <<>>
  /\ prev_dest = <<>>
  /\ polled = FALSE
  /\ preset = FALSE
  /\ appended = <<>>
  /\ lock = "free"
  /\ caller = "idle"
  /\ reader = "idle"
  /\ view = View0
  /\ wk = Wk0

\* The state after construction when no copy_events.json and no
\* geocache.json exist.
InitWith(trees, archive_modes, formats) ==
  CopyInit(trees, archive_modes, formats, {<<>>}) /\ GeoIdle
  /\ ArchIdle /\ ExtractIdle /\ SideIdle

\* --------------------------------------------------------------- CopyState
\* start() that forgets to look at the running flag.
AlreadyRunning_never == FALSE

\* cli.py:358: the guard of start().
AlreadyRunning == running

\* cli.py:358-360: start() while a job runs.
start_rejected ==
  /\ AlreadyRunning
  /\ last_error' = ALREADY_RUNNING
  /\ UNCHANGED << inputs, dest, running, thread, stop_event, last_started,
                  last_finished, last_result, last_mode, current_total,
                  current_copied, stop_requested_flag, events, ev_set, w,
                  njobs, emitted, writes, stop_true, dest_after, prev_result,
                  prev_dest, polled, preset >>
  /\ UNCHANGED appended
  /\ UNCHANGED << lock_vars, geo_vars, arch_vars, extract_vars, side_vars >>

\* cli.py:362-390: start() launches the worker of job njobs + 1.
start_launch(config) ==
  /\ ~AlreadyRunning
  /\ njobs < MaxJobs
  /\ LET j == njobs + 1 IN
     /\ njobs' = j
     /\ ev_set' = [ev_set EXCEPT ![j] = FALSE]
     /\ stop_event' = <<j>>
     /\ thread' = <<j>>
     /\ running' = TRUE
     /\ last_error' = None
     /\ last_result' = <<>>
     /\ last_started' = "ts"
     /\ last_finished' = None
     /\ last_mode' = "manual"
     /\ current_copied' = <<0>>
     /\ stop_requested_flag' = FALSE
     /\ current_total' =
          IF config.SRC # "" /\ allowed_formats.given /\ allowed_formats.exts # <<>>
          THEN count_source_files(src_tree, config.SRC, allowed_formats.exts)
          ELSE <<>>
     /\ events' = <<>>
     /\ w' = [w EXCEPT ![j] = [Worker0 EXCEPT !.pc = "init", !.cfg = config]]
  /\ emitted' = <<>>
  /\ writes' = {}
  /\ stop_true' = FALSE
  /\ dest_after' = <<>>
  /\ prev_result' = last_result
  /\ prev_dest' = dest_after
  /\ polled' = FALSE
  /\ preset' = FALSE
  /\ UNCHANGED << inputs, dest >>
  /\ appended' = <<0>>
  /\ UNCHANGED << lock_vars, geo_vars, arch_vars, extract_vars, side_vars >>

\* cli.py:356-390
start(config) == start_rejected \/ start_launch(config)

\* cli.py:394-396: stop() while no job runs.
stop_rejected ==
  /\ ~running \/ stop_event = <<>>
  /\ last_error' = NOT_RUNNING
  /\ UNCHANGED << inputs, dest, running, thread, stop_event, last_started,
                  last_finished, last_result, last_mode, current_total,
                  current_copied, stop_requested_flag, events, ev_set, w,
                  njobs, emitted, writes, stop_true, dest_after, prev_result,
                  prev_dest, polled, preset >>
  /\ UNCHANGED appended
  /\ UNCHANGED << lock_vars, geo_vars, arch_vars, extract_vars, side_vars >>

\* A stop() that does not set the event.
SetEvent_noop(j) == ev_set

\* A stop() that sets one event shared by all jobs.
SetEvent_all(j) == [i \in DOMAIN ev_set |-> TRUE]

\* A stop() that flips the event: a second stop() clears it.
SetEvent_toggle(j) == [ev_set EXCEPT ![j] = ~@]

\* cli.py:398: threading.Event.set() on the event of job j.
SetEvent(j) == [ev_set EXCEPT ![j] = TRUE]

\* cli.py:397-399: stop() sets the stop signal of the running job.
stop_set ==
  /\ ~(~running \/ stop_event = <<>>)
  /\ stop_requested_flag' = TRUE
  /\ ev_set' = SetEvent(stop_event[1])
  /\ stop_true' = TRUE
  /\ UNCHANGED << inputs, dest, running, thread, stop_event, last_started,
                  last_finished, last_error, last_result, last_mode,
                  current_total, current_copied, events, w, njobs, emitted,
                  writes, dest_after, prev_result, prev_dest, polled, preset >>
  /\ UNCHANGED appended
  /\ UNCHANGED << lock_vars, geo_vars, arch_vars, extract_vars, side_vars >>

\* cli.py:392-399
stop == stop_rejected \/ stop_set

\* cli.py:401-414
snapshot ==
  [running |-> running,
   stop_requested |-> stop_event # <<>> /\ ev_set[stop_event[1]],
   last_started |-> last_started, last_finished |-> last_finished,
   last_error |-> last_error, last_result |-> last_result,
   last_mode |-> last_mode, current_total |-> current_total,
   current_copied |-> current_copied]

\* ------------------------------------------------------------ CopyState._run
\* cli.py:423-443 and copy_process.py:43-58: the worker reads its
\* configuration and builds the CopyProcess (ctor: its constructors load
\* geocache.json, and raise when that fails); cli.py:460-469 when it raised.
run_init(j, ctor) ==
  /\ w[j].pc = "init"
  /\ IF w[j].cfg.SRC = "" \/ w[j].cfg.DST = "" \/ ctor = "raises"
     THEN LET msg == IF w[j].cfg.SRC = "" \/ w[j].cfg.DST = ""
                     THEN NO_PATHS ELSE CTOR_FAILED
          IN /\ last_error' = msg
             /\ events' = append_event(events, Ev("error", "", None, msg))
             /\ w' = [w EXCEPT ![j].pc = "notify"]
     ELSE /\ w' = [w EXCEPT ![j].pc = "walk", ![j].summary = Summary0,
                            ![j].at = NextPos(src_tree, 1, 1)]
          /\ UNCHANGED << last_error, events >>
  /\ UNCHANGED << inputs, dest, running, thread, stop_event, last_started,
                  last_finished, last_result, last_mode, current_total,
                  current_copied, stop_requested_flag, ev_set, njobs,
                  emitted, writes, stop_true, dest_after, prev_result,
                  prev_dest, polled, preset >>
  /\ appended' = bump(appended, Len(events') - Len(events))
  /\ UNCHANGED << lock_vars, geo_vars, arch_vars, extract_vars, side_vars >>

\* The faults that can strike the file f of directory d.
FaultsOf(d, f) ==
  {"none", "early"} \cup
    (IF Lower(f.ext) \in Range(DEFAULT_VIDEO_EXT) /\ SrtOf(src_tree, d, f) # {}
     THEN {"sidecar"} ELSE {})

\* copy_process.py:60-126 with cli.py:444-450: one iteration of the walk.
walk_file(j, fault) ==
  /\ w[j].pc = "walk"
  /\ w[j].at # End
  /\ polled' = (polled \/ stop_true)
  /\ preset' = IF w[j].at = NextPos(src_tree, 1, 1) THEN ev_set[j] ELSE preset
  /\ LET di == w[j].at[1]
         fi == w[j].at[2]
         f == src_tree[di][fi]
         allowed == AllowedList(allowed_formats)
         next == NextPos(src_tree, di, fi + 1)
         o == FileOutcome(src_tree, di, f, use_archive, allowed, w[j].cfg.DST,
                          dest, w[j].summary, fault)
         stopped == <<Ev("stopped", "", None, None)>>
     IN IF StopObserved(j)
        THEN /\ fault = "none"
             /\ w' = [w EXCEPT ![j].summary.stopped = TRUE,
                               ![j].at = AfterStop(src_tree, di)]
             /\ emitted' = emitted \o stopped
             /\ events' = append_events(events, stopped)
             /\ UNCHANGED << dest, current_copied, writes >>
        ELSE IF ~Eligible(allowed, Lower(f.ext))
        THEN /\ fault = "none"
             /\ w' = [w EXCEPT ![j].at = next]
             /\ UNCHANGED << dest, current_copied, writes, emitted, events >>
        ELSE /\ fault \in FaultsOf(di, f)
             /\ w' = [w EXCEPT ![j].summary = o.c, ![j].at = next]
             /\ dest' = o.dest
             /\ writes' = writes \cup o.writes
             /\ emitted' = emitted \o o.cbs
             /\ events' = append_events(events, o.cbs)
             /\ current_copied' = copied_after(current_copied, o.cbs)
  /\ UNCHANGED << inputs, running, thread, stop_event, last_started,
                  last_finished, last_error, last_result, last_mode,
                  current_total, stop_requested_flag, ev_set, njobs,
                  stop_true, dest_after, prev_result, prev_dest >>
  /\ appended' = bump(appended, Len(emitted') - Len(emitted))
  /\ UNCHANGED << lock_vars, geo_vars, arch_vars, extract_vars, side_vars >>

\* copy_process.py:131 and cli.py:452-459: copy_files returns, the worker
\* stores the summary.
store_result(j) ==
  /\ w[j].pc = "walk"
  /\ w[j].at = End
  /\ last_result' = <<w[j].summary>>
  /\ w' = [w EXCEPT ![j].result = <<w[j].summary>>, ![j].pc = "notify"]
  /\ dest_after' = dest
  /\ preset' = IF NextPos(src_tree, 1, 1) = End THEN ev_set[j] ELSE preset
  /\ UNCHANGED << inputs, dest, running, thread, stop_event, last_started,
                  last_finished, last_error, last_mode, current_total,
                  current_copied, stop_requested_flag, events, ev_set, njobs,
                  emitted, writes, stop_true, prev_result, prev_dest, polled >>
  /\ UNCHANGED appended
  /\ UNCHANGED << lock_vars, geo_vars, arch_vars, extract_vars, side_vars >>

\* cli.py:484-489, 510: what the notification says of the job.
Message(j) ==
  IF w[j].result = <<>> THEN "failed"
  ELSE IF stop_requested_flag \/ w[j].result[1].stopped THEN "stopped by user"
  ELSE IF w[j].result[1].errors = 0 THEN "finished ok"
  ELSE "finished with errors"

\* A worker that a failed notification ends before its last step.
AfterNotify_crash(sent) == IF sent THEN "final" ELSE "crashed"

\* cli.py:491-507, 509-525: where the worker goes on after the notification
\* was sent (sent) or send_telegram_message raised.
AfterNotify(sent) == "final"

\* cli.py:470-525: the notification; sent = FALSE when sending raises.
notify(j, sent) ==
  /\ w[j].pc = "notify"
  /\ w' = [w EXCEPT ![j].msg = Message(j), ![j].pc = AfterNotify(sent)]
  /\ events' = append_event(events,
        IF sent THEN Ev("info", "Telegram", None, "sent")
        ELSE Ev("error", "Telegram", None, "not sent"))
  /\ UNCHANGED << inputs, dest, job_state, ev_set, njobs, emitted, writes,
                  stop_true, dest_after, prev_result, prev_dest, polled,
                  preset >>
  /\ appended' = bump(appended, 1)
  /\ UNCHANGED << lock_vars, geo_vars, arch_vars, extract_vars, side_vars >>

\* The record of a thread that has ended: its locals are gone.
Ended == [Worker0 EXCEPT !.pc = "done"]

\* cli.py:526-530: the end of the worker.  The job's threading.Event is
\* dropped with its last reference.
run_final(j) ==
  /\ w[j].pc = "final"
  /\ running' = FALSE
  /\ last_finished' = "ts"
  /\ stop_event' = <<>>
  /\ thread' = <<>>
  /\ w' = [w EXCEPT ![j] = Ended]
  /\ ev_set' = [ev_set EXCEPT ![j] = FALSE]
  /\ UNCHANGED << inputs, dest, last_started, last_error, last_result,
                  last_mode, current_total, current_copied,
                  stop_requested_flag, events, njobs, emitted, writes,
                  stop_true, dest_after, prev_result, prev_dest, polled,
                  preset >>
  /\ UNCHANGED appended
  /\ UNCHANGED << lock_vars, geo_vars, arch_vars, extract_vars, side_vars >>

\* cli.py:416-530, a step of the worker of job j.
run(j) ==
  \/ \E ctor \in {"ok", "raises"} : run_init(j, ctor)
  \/ \E fault \in Faults : walk_file(j, fault)
  \/ store_result(j)
  \/ \E sent \in BOOLEAN : notify(j, sent)
  \/ run_final(j)

\* The job controller: start() and stop() called at any time, with any
\* configuration, over the default formats or one format.
Init ==
  InitWith(Trees(MaxJobFiles), {FALSE},
           {NoFormats, [given |-> TRUE, exts |-> <<".JPG">>]})

Next ==
  \/ \E config \in Configs : start(config)
  \/ stop
  \/ \E j \in Jobs : run(j)

Spec == Init /\ [][Next]_vars

\* The copy engine: copy_files run twice over the same source tree,
\* destination and configuration, by a caller that starts a run when none
\* is running and may set the stop signal of a run at any time.
FullConfig == [SRC |-> "SRC", DST |-> "DST"]

InitEngine == InitWith(Trees(MaxFiles), BOOLEAN, AllowedChoices)

NextEngine ==
  \/ njobs < 2 /\ start_launch(FullConfig)
  \/ stop_set
  \/ \E j \in Jobs : run(j)

SpecEngine == InitEngine /\ [][NextEngine]_vars

\* The jobs whose progress is counted: start() is given a list of formats,
\* so that it counts the candidates of the source tree (cli.py:376-384).
CountedFormats ==
  { [given |-> TRUE, exts |-> <<".JPG">>], [given |-> TRUE, exts |-> <<".MP4">>] }

InitCount == InitWith(Trees(MaxFiles), {FALSE}, CountedFormats)

SpecCount == InitCount /\ [][NextEngine]_vars

\* ------------------------------------------------------------ the event log
\* The event the k-th _append_event call records.
LogEv(k) == Ev("copied", "SRC/f" \o ToString(k), "DST/f" \o ToString(k), None)

\* The logs _load_events finds in copy_events.json: none, or the two events
\* of an earlier process.
LoadedLogs == { <<>>, <<LogEv(-2), LogEv(-1)>> }

\* The number of the next _append_event call.
NextAppend == IF appended = <<>> THEN Len(events) + 1 ELSE appended[1] + 1

\* cli.py:307-322: _append_event
log_append ==
  /\ NextAppend <= MaxAppends
  /\ events' = append_event(events, LogEv(NextAppend))
  /\ appended' = bump(appended, 1)
  /\ UNCHANGED << inputs, dest, job_state, ev_set, w, njobs, emitted, writes,
                  stop_true, dest_after, prev_result, prev_dest, polled,
                  preset, lock_vars, geo_vars, arch_vars, extract_vars, side_vars >>

\* cli.py:301-305: _reset_events
log_reset ==
  /\ events' = <<>>
  /\ appended' = <<0>>
  /\ UNCHANGED << inputs, dest, job_state, ev_set, w, njobs, emitted, writes,
                  stop_true, dest_after, prev_result, prev_dest, polled,
                  preset, lock_vars, geo_vars, arch_vars, extract_vars, side_vars >>

\* The event log on its own: appends and resets in any order.
InitLog ==
  CopyInit({[d \in Dirs |-> <<>>]}, {FALSE}, {NoFormats}, LoadedLogs) /\ GeoIdle
  /\ ArchIdle /\ ExtractIdle /\ SideIdle

NextLog == log_append \/ log_reset

SpecLog == InitLog /\ [][NextLog]_vars

\* ------------------------------------------- CopyState, statement by statement
\* The methods of CopyState as threads that take CopyState._lock, run their
\* statements and release it: a caller of start() and stop(), a caller of
\* snapshot(), and the worker.  The copy engine is reduced to the callbacks
\* it makes.
rest == << inputs, dest, w, emitted, writes, stop_true, dest_after,
           prev_result, prev_dest, polled, preset, geo_vars, arch_vars,
           extract_vars, side_vars >>

\* A lock that excludes nobody.
CanAcquire_always(t) == TRUE

\* `with self._lock`: the thread t may enter when the lock is free.
CanAcquire(t) == lock = "free"

\* An event of the worker of job j.
JobEv(kind, j) == Ev(kind, "job" \o ToString(j), None, None)

\* A start() that leaves the event log as it is.
ResetLog_keep == events

\* cli.py:301-305: the log after _reset_events.
ResetLog == <<>>

\* cli.py:357: start() takes the lock.
lk_start_enter ==
  /\ caller = "idle"
  /\ running \/ njobs < MaxJobs
  /\ CanAcquire("caller")
  /\ lock' = "caller"
  /\ caller' = "check"
  /\ UNCHANGED << rest, job_state, events, appended, ev_set, njobs, reader,
                  view, wk >>

\* cli.py:358-360: the test of _running.
lk_start_check ==
  /\ caller = "check"
  /\ IF running
     THEN /\ last_error' = ALREADY_RUNNING
          /\ lock' = "free"
          /\ caller' = "idle"
     ELSE /\ caller' = "fields1"
          /\ UNCHANGED << last_error, lock >>
  /\ UNCHANGED << rest, running, thread, stop_event, last_started,
                  last_finished, last_result, last_mode, current_total,
                  current_copied, stop_requested_flag, events, appended,
                  ev_set, njobs, reader, view, wk >>

\* cli.py:362-370: the event and the thread of the job, _running = True.
lk_start_fields1 ==
  /\ caller = "fields1"
  /\ stop_event' = <<njobs + 1>>
  /\ thread' = <<njobs + 1>>
  /\ ev_set' = [ev_set EXCEPT ![njobs + 1] = FALSE]
  /\ running' = TRUE
  /\ caller' = "fields2"
  /\ UNCHANGED << rest, last_started, last_finished, last_error, last_result,
                  last_mode, current_total, current_copied,
                  stop_requested_flag, events, appended, njobs, lock, reader,
                  view, wk >>

\* cli.py:371-386: the other fields; the scan is made when a source and a
\* list of formats are given.
lk_start_fields2(scan) ==
  /\ caller = "fields2"
  /\ last_error' = None
  /\ last_result' = <<>>
  /\ last_started' = "ts"
  /\ last_finished' = None
  /\ last_mode' = "manual"
  /\ current_copied' = <<0>>
  /\ stop_requested_flag' = FALSE
  /\ IF scan THEN caller' = "scan" /\ UNCHANGED current_total
     ELSE caller' = "reset" /\ current_total' = <<>>
  /\ UNCHANGED << rest, running, thread, stop_event, events, appended,
                  ev_set, njobs, lock, reader, view, wk >>

\* cli.py:381-386: _count_source_files walks the source directory; found
\* is its count, <<>> when it raised.
lk_start_scan(found) ==
  /\ caller = "scan"
  /\ current_total' = found
  /\ caller' = "reset"
  /\ UNCHANGED << rest, running, thread, stop_event, last_started,
                  last_finished, last_error, last_result, last_mode,
                  current_copied, stop_requested_flag, events, appended,
                  ev_set, njobs, lock, reader, view, wk >>

\* cli.py:387: _reset_events empties the log and writes copy_events.json.
lk_start_reset ==
  /\ caller = "reset"
  /\ events' = ResetLog
  /\ appended' = <<0>>
  /\ caller' = "thread"
  /\ UNCHANGED << rest, job_state, ev_set, njobs, lock, reader, view, wk >>

\* cli.py:389: thread.start(); the worker has left files to walk over.
lk_start_thread(left) ==
  /\ caller = "thread"
  /\ njobs' = njobs + 1
  /\ wk' = [pc |-> "cfg", job |-> njobs + 1, left |-> left, result |-> <<>>]
  /\ caller' = "return"
  /\ UNCHANGED << rest, job_state, events, appended, ev_set, lock, reader,
                  view >>

\* cli.py:390: start() returns True and the lock is released.
lk_start_return ==
  /\ caller = "return"
  /\ lock' = "free"
  /\ caller' = "idle"
  /\ UNCHANGED << rest, job_state, events, appended, ev_set, njobs, reader,
                  view, wk >>

\* cli.py:392-399: stop(), which makes no call that blocks while it holds
\* the lock.
lk_stop ==
  /\ caller = "idle"
  /\ CanAcquire("caller")
  /\ IF ~running \/ stop_event = <<>>
     THEN /\ last_error' = NOT_RUNNING
          /\ UNCHANGED << stop_requested_flag, ev_set >>
     ELSE /\ stop_requested_flag' = TRUE
          /\ ev_set' = SetEvent(stop_event[1])
          /\ UNCHANGED last_error
  /\ UNCHANGED << rest, running, thread, stop_event, last_started,
                  last_finished, last_result, last_mode, current_total,
                  current_copied, events, appended, njobs, lock_vars >>

\* cli.py:402: snapshot() takes the lock.
lk_snap_enter ==
  /\ reader = "idle"
  /\ CanAcquire("reader")
  /\ lock' = "reader"
  /\ reader' = "read1"
  /\ UNCHANGED << rest, job_state, events, appended, ev_set, njobs, caller,
                  view, wk >>

\* cli.py:403-406: stop_requested and running are read.
lk_snap_read1 ==
  /\ reader = "read1"
  /\ view' = [view EXCEPT !.stop_requested = snapshot.stop_requested,
                          !.running = running]
  /\ reader' = "read2"
  /\ UNCHANGED << rest, job_state, events, appended, ev_set, njobs, lock,
                  caller, wk >>

\* cli.py:407-414: the other fields are read, the view is returned and the
\* lock released.
lk_snap_read2 ==
  /\ reader = "read2"
  /\ view' = [snapshot EXCEPT !.stop_requested = view.stop_requested,
                              !.running = view.running]
  /\ reader' = "idle"
  /\ lock' = "free"
  /\ UNCHANGED << rest, job_state, events, appended, ev_set, njobs, caller,
                  wk >>

\* cli.py:424-443: the worker reads its configuration and builds the
\* CopyProcess, or raises.
lk_w_cfg(ok) ==
  /\ wk.pc = "cfg"
  /\ wk' = [wk EXCEPT !.pc = IF ok THEN "file" ELSE "exc",
                      !.result = IF ok THEN <<Summary0>> ELSE <<>>]
  /\ UNCHANGED << rest, job_state, events, appended, ev_set, njobs, lock,
                  caller, reader, view >>

\* copy_process.py:60-126: one file of the walk.  A file that was copied
\* leaves the worker before its progress_cb("copied"); the other callbacks
\* only append their event (cli.py:450).
lk_w_file(kind) ==
  /\ wk.pc = "file"
  /\ wk.left > 0
  /\ LET c == wk.result[1]
         c1 == [c EXCEPT !.processed = @ + 1]
     IN IF ev_set[wk.job]
        THEN /\ kind = "stopped"
             /\ wk' = [wk EXCEPT !.left = 0,
                                 !.result = <<[c EXCEPT !.stopped = TRUE]>>]
             /\ events' = append_event(events, JobEv("stopped", wk.job))
             /\ appended' = bump(appended, 1)
        ELSE CASE kind = "copied" ->
                    /\ wk' = [wk EXCEPT !.pc = "cb",
                                        !.result = <<[c1 EXCEPT !.copied = @ + 1]>>]
                    /\ UNCHANGED << events, appended >>
               [] kind = "skipped" ->
                    /\ wk' = [wk EXCEPT !.left = @ - 1,
                                        !.result = <<[c1 EXCEPT !.skipped = @ + 1]>>]
                    /\ events' = append_event(events, JobEv(kind, wk.job))
                    /\ appended' = bump(appended, 1)
               [] kind = "error" ->
                    /\ wk' = [wk EXCEPT !.left = @ - 1,
                                        !.result = <<OnError(c1)>>]
                    /\ events' = append_event(events, JobEv(kind, wk.job))
                    /\ appended' = bump(appended, 1)
               [] OTHER -> FALSE
  /\ UNCHANGED << rest, job_state, ev_set, njobs, lock, caller, reader, view >>

\* cli.py:445-449: progress_cb("copied") counts the file under the lock.
lk_w_cb_count ==
  /\ wk.pc = "cb"
  /\ CanAcquire("worker")
  /\ current_copied' = copied_after(current_copied, <<JobEv("copied", wk.job)>>)
  /\ wk' = [wk EXCEPT !.pc = "cbev"]
  /\ UNCHANGED << rest, running, thread, stop_event, last_started,
                  last_finished, last_error, last_result, last_mode,
                  current_total, stop_requested_flag, events, appended,
                  ev_set, njobs, lock, caller, reader, view >>

\* cli.py:450: progress_cb("copied") appends its event.
lk_w_cb_event ==
  /\ wk.pc = "cbev"
  /\ events' = append_event(events, JobEv("copied", wk.job))
  /\ appended' = bump(appended, 1)
  /\ wk' = [wk EXCEPT !.pc = "file", !.left = @ - 1]
  /\ UNCHANGED << rest, job_state, ev_set, njobs, lock, caller, reader, view >>

\* cli.py:458-459: copy_files has returned; the result is stored.
lk_w_result ==
  /\ wk.pc = "file"
  /\ wk.left = 0
  /\ CanAcquire("worker")
  /\ last_result' = wk.result
  /\ wk' = [wk EXCEPT !.pc = "notify"]
  /\ UNCHANGED << rest, running, thread, stop_event, last_started,
                  last_finished, last_error, last_mode, current_total,
                  current_copied, stop_requested_flag, events, appended,
                  ev_set, njobs, lock, caller, reader, view >>

\* cli.py:460-462: the job-level exception is stored.
lk_w_exc ==
  /\ wk.pc = "exc"
  /\ CanAcquire("worker")
  /\ last_error' = CTOR_FAILED
  /\ wk' = [wk EXCEPT !.pc = "excev"]
  /\ UNCHANGED << rest, running, thread, stop_event, last_started,
                  last_finished, last_result, last_mode, current_total,
                  current_copied, stop_requested_flag, events, appended,
                  ev_set, njobs, lock, caller, reader, view >>

\* cli.py:463-469: and its event appended.
lk_w_exc_event ==
  /\ wk.pc = "excev"
  /\ events' = append_event(events, JobEv("error", wk.job))
  /\ appended' = bump(appended, 1)
  /\ wk' = [wk EXCEPT !.pc = "notify"]
  /\ UNCHANGED << rest, job_state, ev_set, njobs, lock, caller, reader, view >>

\* cli.py:470-525: the notification is sent, or not, and its event appended.
lk_w_notify(sent) ==
  /\ wk.pc = "notify"
  /\ events' = append_event(events,
                   JobEv(IF sent THEN "info" ELSE "error", wk.job))
  /\ appended' = bump(appended, 1)
  /\ wk' = [wk EXCEPT !.pc = "final1"]
  /\ UNCHANGED << rest, job_state, ev_set, njobs, lock, caller, reader, view >>

\* cli.py:526-527: the last critical section, _running = False.
lk_w_final1 ==
  /\ wk.pc = "final1"
  /\ CanAcquire("worker")
  /\ lock' = "worker"
  /\ running' = FALSE
  /\ wk' = [wk EXCEPT !.pc = "final2"]
  /\ UNCHANGED << rest, thread, stop_event, last_started, last_finished,
                  last_error, last_result, last_mode, current_total,
                  current_copied, stop_requested_flag, events, appended,
                  ev_set, njobs, caller, reader, view >>

\* cli.py:528-530: the finish timestamp, the event and the thread dropped,
\* the lock released.
lk_w_final2 ==
  /\ wk.pc = "final2"
  /\ last_finished' = "ts"
  /\ stop_event' = <<>>
  /\ thread' = <<>>
  /\ ev_set' = [ev_set EXCEPT ![wk.job] = FALSE]
  /\ lock' = "free"
  /\ wk' = [wk EXCEPT !.pc = "done"]
  /\ UNCHANGED << rest, running, last_started, last_error, last_result,
                  last_mode, current_total, current_copied,
                  stop_requested_flag, events, appended, njobs, caller,
                  reader, view >>

InitLock ==
  CopyInit({[d \in Dirs |-> <<>>]}, {FALSE}, {NoFormats}, LoadedLogs) /\ GeoIdle
  /\ ArchIdle /\ ExtractIdle /\ SideIdle

NextLock ==
  \/ lk_start_enter
  \/ lk_start_check
  \/ lk_start_fields1
  \/ \E scan \in BOOLEAN : lk_start_fields2(scan)
  \/ \E found \in {<<>>, <<MaxLockFiles>>} : lk_start_scan(found)
  \/ lk_start_reset
  \/ \E left \in 0..MaxLockFiles : lk_start_thread(left)
  \/ lk_start_return
  \/ lk_stop
  \/ lk_snap_enter
  \/ lk_snap_read1
  \/ lk_snap_read2
  \/ \E ok \in BOOLEAN : lk_w_cfg(ok)
  \/ \E kind \in {"copied", "skipped", "error", "stopped"} : lk_w_file(kind)
  \/ lk_w_cb_count
  \/ lk_w_cb_event
  \/ lk_w_result
  \/ lk_w_exc
  \/ lk_w_exc_event
  \/ \E sent \in BOOLEAN : lk_w_notify(sent)
  \/ lk_w_final1
  \/ lk_w_final2

SpecLock == InitLock /\ [][NextLock]_vars

\* ------------------------------------------------------------ geocache.json
\* Coordinates in units of 1/10000 of a degree: Paris (48.8566, 2.3522) and
\* Rome (41.9, 12.5).
PARIS == <<488566, 23522>>
ROME == <<419000, 125000>>
Coords == {PARIS, ROME}

\* What reverse_geocoder names the place (file_processor.py:141), and what
\* Nominatim with language="ru" does (file_processor.py:151-154).
OfflineName(c) == IF c = PARIS THEN "Paris" ELSE "Rome"
OnlineName(c) == IF c = PARIS THEN "Parizh" ELSE "Rim"

\* m in 0..9999 as k digits, zeros in front.
Padded(m, k) ==
  LET t == ToString(m)
      z == k - Len(t)
  IN CASE z = 3 -> "000" \o t
       [] z = 2 -> "00" \o t
       [] z = 1 -> "0" \o t
       [] OTHER -> t

\* str(float) of n / 10000: the digits after the point without the zeros
\* at their end, one digit at least.
FloatStr(n) ==
  LET a == IF n < 0 THEN 0 - n ELSE n
      m == a % 10000
      frac == CASE m = 0 -> "0"
                [] m % 1000 = 0 -> Padded(m \div 1000, 1)
                [] m % 100 = 0 -> Padded(m \div 100, 2)
                [] m % 10 = 0 -> Padded(m \div 10, 3)
                [] OTHER -> Padded(m, 4)
  IN (IF n < 0 THEN "-" ELSE "") \o ToString(a \div 10000) \o "." \o frac

\* file_processor.py:134, location_history.py:67: the cache key.
Key(c) == FloatStr(c[1]) \o "," \o FloatStr(c[2])

\* file_processor.py:47-49, location_history.py:62-64: json.dump writes
\* the members of the dict.
Dump(d) == { <<k, d[k]>> : k \in DOMAIN d }

\* A load that reads nothing.
Load_empty(st) == <<>>

\* file_processor.py:41-45, location_history.py:56-60: the dict of the
\* members of the file, the empty dict when there is no file.
Load(st) ==
  IF st = <<>> THEN <<>>
  ELSE [k \in {p[1] : p \in st[1]} |->
          (CHOOSE p \in st[1] : p[1] = k)[2]]

\* d[k] = v
Put(d, k, v) == [x \in DOMAIN d \cup {k} |-> IF x = k THEN v ELSE d[x]]

\* What a call that raised gives its caller.
RAISED == "raised"

\* A last line that caches the sentinel and writes it.
Unknown_cached(cache, key) ==
  [city |-> UNKNOWN_CITY, tiers |-> {"offline", "online"},
   cache |-> Put(cache, key, UNKNOWN_CITY), saved |-> TRUE, raised |-> FALSE]

\* file_processor.py:162, location_history.py:93: no tier gave a city.
Unknown(cache, key) ==
  [city |-> UNKNOWN_CITY, tiers |-> {"offline", "online"},
   cache |-> cache, saved |-> FALSE, raised |-> FALSE]

\* file_processor.py:133-162 (who = "fp"), location_history.py:66-93
\* (who = "lh"): the city of c from the cache, else from the offline tier,
\* else from the online tier.  off and on are what the tiers answer, ""
\* when they answer nothing or raise; wr[1] and wr[2] say whether the write
\* of geocache.json after the offline and after the online tier succeeds.
\* A write that raises after the offline tier is caught with the tier
\* (lines 146, 79) and the online tier is tried; one that raises after the
\* online tier is caught in FileProcessor (line 159) and not in
\* LocationHistory (line 90).  The dict keeps what was put in it before the
\* write.  `saved` says the dict was written to geocache.json.
Resolve(who, cache, c, off, on, wr) ==
  LET key == Key(c)
      c1 == IF off # "" THEN Put(cache, key, off) ELSE cache
      c2 == IF on # "" THEN Put(c1, key, on) ELSE c1
  IN IF key \in DOMAIN cache
     THEN [city |-> cache[key], tiers |-> {}, cache |-> cache,
           saved |-> FALSE, raised |-> FALSE]
     ELSE IF off # "" /\ wr[1]
     THEN [city |-> off, tiers |-> {"offline"}, cache |-> c1,
           saved |-> TRUE, raised |-> FALSE]
     ELSE IF on # "" /\ wr[2]
     THEN [city |-> on, tiers |-> {"offline", "online"}, cache |-> c2,
           saved |-> TRUE, raised |-> FALSE]
     ELSE IF on # "" /\ who = "lh"
     THEN [city |-> RAISED, tiers |-> {"offline", "online"}, cache |-> c2,
           saved |-> FALSE, raised |-> TRUE]
     ELSE Unknown(c2, key)

\* The online tier asked before the offline tier.
Lookup_online_first(who, cache, c, off, on, wr) ==
  Resolve(who, cache, c, on, off, wr)

Lookup(who, cache, c, off, on, wr) == Resolve(who, cache, c, off, on, wr)

copy_vars == << inputs, dest, job_state, events, appended, ev_set, w, njobs,
               emitted, writes, stop_true, dest_after, prev_result,
               prev_dest, polled, preset, lock_vars >>

\* file_processor.py:23-33: a FileProcessor is built; its LocationHistory
\* and then itself load geocache.json.  json.load of a file that cannot be
\* read or parsed raises out of _load_cache (location_history.py:56-60),
\* out of both constructors and out of CopyProcess.__init__
\* (copy_process.py:35): no FileProcessor exists then.
geo_construct ==
  /\ IF store # <<>> /\ ~readable
     THEN /\ raised' = TRUE
          /\ UNCHANGED << lh_cache, fp_cache >>
     ELSE /\ lh_cache' = Load(store)
          /\ fp_cache' = Load(store)
          /\ raised' = FALSE
  /\ geo' = [Geo0 EXCEPT !.by = "load"]
  /\ resolved' = {}
  /\ UNCHANGED << store, readable, env, copy_vars, arch_vars, extract_vars, side_vars >>

\* A FileProcessor was built: the last constructor call did not raise.
Built == ~(geo.by = "load" /\ raised)

\* What the offline tier, the online tier and the two writes do for c now.
OffNow(c) == IF env.offline THEN OfflineName(c) ELSE ""
OnNow(c) == IF env.online THEN OnlineName(c) ELSE ""
WrNow == <<env.disk, env.disk>>

\* file_processor.py:133-162: FileProcessor.get_city_from_coordinates.
fp_lookup(c) ==
  LET r == Lookup("fp", fp_cache, c, OffNow(c), OnNow(c), WrNow)
  IN /\ Built
     /\ fp_cache' = r.cache
     /\ store' = IF r.saved THEN <<Dump(r.cache)>> ELSE store
     /\ readable' = (r.saved \/ readable)
     /\ geo' = [by |-> "fp", key |-> Key(c), city |-> r.city,
                tiers |-> r.tiers]
     /\ raised' = r.raised
     /\ resolved' = IF r.saved THEN resolved \cup {<<Key(c), r.city>>}
                    ELSE resolved
     /\ UNCHANGED << lh_cache, env, copy_vars, arch_vars, extract_vars, side_vars >>

\* location_history.py:66-93: LocationHistory.get_city_from_coordinates,
\* what it does to the cache, to geocache.json and for its caller.
lh_call(c) ==
  LET r == Lookup("lh", lh_cache, c, OffNow(c), OnNow(c), WrNow)
  IN /\ Built
     /\ lh_cache' = r.cache
     /\ store' = IF r.saved THEN <<Dump(r.cache)>> ELSE store
     /\ readable' = (r.saved \/ readable)
     /\ geo' = [by |-> "lh", key |-> Key(c), city |-> r.city,
                tiers |-> r.tiers]
     /\ raised' = r.raised
     /\ resolved' = IF r.saved THEN resolved \cup {<<Key(c), r.city>>}
                    ELSE resolved
     /\ UNCHANGED << fp_cache, env >>

lh_lookup(c) ==
  lh_call(c) /\ UNCHANGED << copy_vars, arch_vars, extract_vars, side_vars >>

\* The reverse_geocoder data, the network or the disk start or stop working.
geo_env(e) ==
  /\ e # env
  /\ env' = e
  /\ UNCHANGED << store, fp_cache, lh_cache, geo, resolved, readable, raised,
                  copy_vars, arch_vars, extract_vars, side_vars >>

\* geocache.json is left unparsable: a write of it was cut short, or it
\* was edited.
geo_damage ==
  /\ store # <<>> /\ readable
  /\ readable' = FALSE
  /\ UNCHANGED << store, fp_cache, lh_cache, geo, resolved, raised, env,
                  copy_vars, arch_vars, extract_vars, side_vars >>

\* A FileProcessor built where geocache.json is missing or holds {}.
InitGeo ==
  /\ CopyInit({[d \in Dirs |-> <<>>]}, {FALSE}, {NoFormats}, {<<>>})
  /\ ArchIdle /\ ExtractIdle /\ SideIdle
  /\ store \in {<<>>, <<{}>>}
  /\ readable = TRUE
  /\ lh_cache = Load(store)
  /\ fp_cache = Load(store)
  /\ geo = [Geo0 EXCEPT !.by = "load"]
  /\ raised = FALSE
  /\ env = Env0
  /\ resolved = {}

NextGeo ==
  \/ geo_construct
  \/ \E c \in Coords : fp_lookup(c)
  \/ \E c \in Coords : lh_lookup(c)
  \/ \E e \in [offline : BOOLEAN, online : BOOLEAN, disk : BOOLEAN] :
       geo_env(e)
  \/ geo_damage

SpecGeo == InitGeo /\ [][NextGeo]_vars

\* ------------------------------------------------------ location archive
\* A point of the archive is <<time, coordinate>>.  The points the
\* documents are made of.
P0 == <<0, PARIS>>
P2 == <<2, ROME>>
P4 == <<4, PARIS>>
PointPool == {P0, P2, P4}

\* The sequences of at most n points, in any order and with repetitions: the
\* points of a document as _extract_points meets them.
Docs(n) == UNION { [1..k -> PointPool] : k \in 0..n }

\* The archives: one JSON file (location_history.py:35), or a directory
\* with a file of month M1 and a file of month M2.
Archives ==
  { [mode |-> "file", files |-> <<[month |-> M1, points |-> d]>>] :
      d \in Docs(MaxDocLen) }
  \cup
  { [mode |-> "dir", files |-> <<[month |-> M1, points |-> d1],
                                [month |-> M2, points |-> d2]>>] :
      d1 \in Docs(MaxDocLen), d2 \in Docs(1) }

RECURSIVE Dedupe(_)
\* location_history.py:163-164: the dict keyed by time and coordinate keeps
\* one point per key, at the place of the first.
Dedupe(pts) ==
  IF pts = <<>> THEN <<>>
  ELSE LET init == Dedupe(SubSeq(pts, 1, Len(pts) - 1))
           last == pts[Len(pts)]
       IN IF last \in Range(init) THEN init ELSE Append(init, last)

RECURSIVE SortByTime(_)
\* sorted(..., key=lambda x: x[0]): stable, ascending by time.
SortByTime(pts) ==
  IF pts = <<>> THEN <<>>
  ELSE LET init == SortByTime(SubSeq(pts, 1, Len(pts) - 1))
           last == pts[Len(pts)]
           k == Cardinality({i \in DOMAIN init : init[i][1] <= last[1]})
       IN SubSeq(init, 1, k) \o <<last>> \o SubSeq(init, k + 1, Len(init))

\* location_history.py:146-165
index(doc) == SortByTime(Dedupe(doc))

\* location_history.py:167-185: the points of the first file of the month,
\* of the one file in file mode, [] when the month has no file.
load_location_history(a, m) ==
  IF a.mode = "file" THEN index(a.files[1].points)
  ELSE LET fs == {i \in DOMAIN a.files : a.files[i].month = m}
       IN IF fs = {} THEN <<>>
          ELSE index(a.files[CHOOSE i \in fs : \A j \in fs : i <= j].points)

RECURSIVE IndexAll(_, _)
\* location_history.py:204-207: the indexes of the files, one after the
\* other.
IndexAll(files, i) ==
  IF i > Len(files) THEN <<>>
  ELSE index(files[i].points) \o IndexAll(files, i + 1)

\* location_history.py:200-211
build_global(a) ==
  IF a.mode = "file" THEN SortByTime(index(a.files[1].points))
  ELSE SortByTime(IndexAll(a.files, 1))

\* A month counts as cached only when its list has points.
InCache_nonempty(cache, m) == m \in DOMAIN cache /\ cache[m] # <<>>

\* file_processor.py:168
InCache(cache, m) == m \in DOMAIN cache

\* A comparison that lets a later point of the same distance win.
Closer_or_equal(diff, mind) == mind = <<>> \/ diff <= mind[1]

\* location_history.py:192; mind = <<>> stands for timedelta.max.
Closer(diff, mind) == mind = <<>> \/ diff < mind[1]

Abs(n) == IF n < 0 THEN 0 - n ELSE n

RECURSIVE nearest_from(_, _, _, _, _)
\* location_history.py:189-193: the loop from the point i on.
nearest_from(ts, pts, i, best, mind) ==
  IF i > Len(pts) THEN best
  ELSE LET diff == Abs(pts[i][1] - ts)
       IN IF Closer(diff, mind)
          THEN nearest_from(ts, pts, i + 1, <<pts[i][2]>>, <<diff>>)
          ELSE nearest_from(ts, pts, i + 1, best, mind)

nearest(ts, pts) == nearest_from(ts, pts, 1, <<>>, <<>>)

\* location_history.py:187-194: get_city_for_timestamp, with the call of
\* get_city_from_coordinates it makes for the nearest point.
city_for_timestamp(ts, pts) ==
  LET best == nearest(ts, pts)
  IN IF best = <<>>
     THEN /\ near' = [ts |-> ts, pts |-> pts, best |-> best,
                      city |-> UNKNOWN_CITY]
          /\ UNCHANGED geo_vars
     ELSE /\ lh_call(best[1])
          /\ near' = [ts |-> ts, pts |-> pts, best |-> best,
                      city |-> geo'.city]

\* file_processor.py:207-208, 212-213, 225-226: the archive lookup of a
\* file of month m with timestamp ts: _get_month_hist (file_processor.py:
\* 165-171), then get_city_for_timestamp.
arch_for_month(m, ts) ==
  LET hit == InCache(month_hist_cache, m)
      pts == IF hit THEN month_hist_cache[m]
             ELSE load_location_history(archive, m)
  IN /\ hit \/ parsed.month[m] < MaxParses
     /\ month_hist_cache' = IF hit THEN month_hist_cache
                            ELSE Put(month_hist_cache, m, pts)
     /\ parsed' = IF hit THEN parsed
                  ELSE [parsed EXCEPT !.month[m] = @ + 1]
     /\ city_for_timestamp(ts, pts)
     /\ UNCHANGED << archive, global_pts, copy_vars, extract_vars, side_vars >>

\* file_processor.py:231, location_history.py:213-214, 196-211:
\* get_city_global_for_timestamp.
arch_global(ts) ==
  LET hit == global_pts # <<>>
      pts == IF hit THEN global_pts[1] ELSE build_global(archive)
  IN /\ hit \/ parsed.glob < MaxParses
     /\ global_pts' = <<pts>>
     /\ parsed' = IF hit THEN parsed ELSE [parsed EXCEPT !.glob = @ + 1]
     /\ city_for_timestamp(ts, pts)
     /\ UNCHANGED << archive, month_hist_cache, copy_vars, extract_vars, side_vars >>

InitArch ==
  /\ CopyInit({[d \in Dirs |-> <<>>]}, {TRUE}, {NoFormats}, {<<>>})
  /\ GeoIdle /\ ExtractIdle /\ SideIdle
  /\ archive \in Archives
  /\ month_hist_cache = <<>>
  /\ global_pts = <<>>
  /\ parsed = Parsed0
  /\ near = Near0

NextArch ==
  \/ \E m \in MonthKeys, ts \in 0..MaxTime : arch_for_month(m, ts)
  \/ \E ts \in 0..MaxTime : arch_global(ts)

SpecArch == InitArch /\ [][NextArch]_vars

\* ------------------------------------------- process_file, file by file
\* An EXIF date tag: <<>> when the image has none, else its text, which
\* strptime can parse (ok) to the date or cannot.
TagValues == { <<>>, <<[ok |-> FALSE, date |-> D1]>>,
               <<[ok |-> TRUE, date |-> D1]>>, <<[ok |-> TRUE, date |-> D2]>> }
NoExif == [orig |-> <<>>, digit |-> <<>>, dt |-> <<>>]
Exifs == [orig : TagValues, digit : TagValues, dt : TagValues]

\* The files process_file is called with: photos with every EXIF, GPS and
\* archive outcome, videos and other files.
ExtractFiles ==
  { [base |-> "IMG_0001", ext |-> ".jpg", mtime |-> m, gps |-> g,
     arch |-> a, glob |-> a, exif |-> x] :
      m \in {D1}, g \in {NoCoords, "Paris", UNKNOWN_CITY},
      a \in {UNKNOWN_CITY, "Rome"}, x \in Exifs }
  \cup
  { [base |-> b, ext |-> e, mtime |-> D2, gps |-> NoCoords,
     arch |-> a, glob |-> gl, exif |-> NoExif] :
      b \in {"CLIP_0001"}, e \in {".mp4", ".txt"},
      a \in {UNKNOWN_CITY, "Rome"}, gl \in {UNKNOWN_CITY, "Rome"} }

\* A call: the file, what the coordinates of the .srt next to it resolve
\* to ("none": there is no .srt), and the archive mode.
ExtractInputs ==
  { [f |-> f, srt |-> sc, use_archive |-> u] :
      f \in ExtractFiles,
      sc \in {"none", NoCoords, "Paris", UNKNOWN_CITY}, u \in BOOLEAN }

\* The directory the file of the call lies in.
TreeOf(inp) ==
  [d \in Dirs |->
     IF d # 1 THEN <<>>
     ELSE IF inp.srt = "none" THEN <<inp.f>>
     ELSE <<inp.f, [inp.f EXCEPT !.ext = ".srt", !.gps = inp.srt]>>]

\* file_processor.py:62-73: the first of DateTimeOriginal,
\* DateTimeDigitized, DateTime that the image has and strptime parses.
exif_datetime(exif) ==
  LET good(v) == v # <<>> /\ v[1].ok
  IN IF good(exif.orig) THEN <<exif.orig[1].date>>
     ELSE IF good(exif.digit) THEN <<exif.digit[1].date>>
     ELSE IF good(exif.dt) THEN <<exif.dt[1].date>>
     ELSE <<>>

\* file_processor.py:191, 197-199: the date of the timestamp the archive
\* is asked with.
timestamp_of(f) ==
  IF Lower(f.ext) \in Range(PHOTO_EXT) /\ exif_datetime(f.exif) # <<>>
  THEN exif_datetime(f.exif)[1] ELSE f.mtime

\* file_processor.py:207, 212, 225: the month whose archive is asked.
hist_month(f) == <<f.mtime.year, f.mtime.month>>

\* file_processor.py:174-240: one call of process_file.
extract ==
  /\ file_in # <<>> /\ extracted = <<>>
  /\ LET inp == file_in[1]
     IN extracted' =
          << [result |-> process_file(TreeOf(inp), 1, inp.f, inp.use_archive,
                                      <<>>),
              timestamp |-> timestamp_of(inp.f),
              month |-> hist_month(inp.f)] >>
  /\ UNCHANGED << file_in, copy_vars, geo_vars, arch_vars, side_vars >>

InitExtract ==
  /\ CopyInit({[d \in Dirs |-> <<>>]}, {FALSE}, {NoFormats}, {<<>>})
  /\ GeoIdle /\ ArchIdle /\ SideIdle
  /\ file_in \in { <<inp>> : inp \in ExtractInputs }
  /\ extracted = <<>>

NextExtract == extract

SpecExtract == InitExtract /\ [][NextExtract]_vars

\* ------------------------------------------- a month document, as JSON
\* The members of "timelineObjects": a visit whose placeLocation is a
\* "lat, lng" text, a visit whose placeLocation is another text, an object
\* with none of the known keys, and a member that is a text, no object.
JsonRecs ==
  { [kind |-> "visit", point |-> <<pt>>] : pt \in {P0, P2} }
  \cup { [kind |-> k, point |-> <<>>] : k \in {"badlatlng", "unknown", "text"} }

\* The month files: one that is no JSON, a JSON number, a JSON text, and
\* an object with "timelineObjects".
JsonDocs(n) ==
  { [shape |-> sh, records |-> <<>>] : sh \in {"unparsable", "number", "text"} }
  \cup { [shape |-> "timeline", records |-> rs] :
           rs \in UNION { [1..k -> JsonRecs] : k \in 0..n } }

\* location_history.py:103-144 with _parse_latlng (22-25): the points of
\* one member, or the exception that leaves _extract_points.
extract_points(r) ==
  CASE r.kind = "visit" -> [raised |-> FALSE, pts |-> r.point]
    [] r.kind = "badlatlng" -> [raised |-> TRUE, pts |-> <<>>]
    [] r.kind = "text" -> [raised |-> TRUE, pts |-> <<>>]
    [] OTHER -> [raised |-> FALSE, pts |-> <<>>]

RECURSIVE extend_points(_)
\* location_history.py:148-150: points.extend over the members in turn.
extend_points(rs) ==
  IF rs = <<>> THEN [raised |-> FALSE, pts |-> <<>>]
  ELSE LET init == extend_points(SubSeq(rs, 1, Len(rs) - 1))
           last == extract_points(rs[Len(rs)])
       IN IF init.raised \/ last.raised THEN [raised |-> TRUE, pts |-> <<>>]
          ELSE [raised |-> FALSE, pts |-> init.pts \o last.pts]

\* location_history.py:95-101, 146-165: _index(_load_json(path)).  A file
\* that is no JSON is read as {}; a number cannot be iterated over.
index_json(doc) ==
  CASE doc.shape = "unparsable" -> [raised |-> FALSE, pts |-> <<>>]
    [] doc.shape = "number" -> [raised |-> TRUE, pts |-> <<>>]
    [] doc.shape = "text" -> [raised |-> FALSE, pts |-> <<>>]
    [] OTHER -> LET e == extend_points(doc.records)
                IN IF e.raised THEN e
                   ELSE [raised |-> FALSE, pts |-> index(e.pts)]

\* Before the run: the month document, the files of the month left to
\* copy, the counters of copy_files, _month_hist_cache for the month and
\* the outcome of the last month lookup.
Parse0(doc, n) ==
  [doc |-> doc, left |-> n, c |-> Summary0, cache |-> <<>>,
   last |-> [raised |-> FALSE, pts |-> <<>>]]

\* copy_process.py:73-126 for a photo without GPS in archive mode:
\* process_file asks _get_month_hist for the month of the file
\* (file_processor.py:210-214, 165-171); an exception of the lookup leaves
\* process_file and is counted by the except clause of copy_files.
copy_month_file ==
  /\ parse.left > 0
  /\ LET hist == IF parse.cache # <<>>
                 THEN [raised |-> FALSE, pts |-> parse.cache[1]]
                 ELSE index_json(parse.doc)
         c1 == [parse.c EXCEPT !.processed = @ + 1]
     IN parse' = [parse EXCEPT
                    !.left = @ - 1,
                    !.last = hist,
                    !.cache = IF hist.raised THEN @ ELSE <<hist.pts>>,
                    !.c = IF hist.raised THEN OnError(c1)
                          ELSE [c1 EXCEPT !.copied = @ + 1]]
  /\ UNCHANGED << copy_vars, geo_vars, arch_vars, extract_vars, elock,
                  evreader, flash, watch >>

InitParse ==
  /\ CopyInit({[d \in Dirs |-> <<>>]}, {TRUE}, {NoFormats}, {<<>>})
  /\ GeoIdle /\ ArchIdle /\ ExtractIdle
  /\ elock = "free" /\ evreader = "idle" /\ flash = <<>> /\ watch = <<>>
  /\ parse \in { Parse0(doc, n) : doc \in JsonDocs(MaxRecs),
                                   n \in 1..MaxMonthFiles }

NextParse == copy_month_file

SpecParse == InitParse /\ [][NextParse]_vars

\* ------------------------------------------------- the two locks together
\* CopyState._lock (lock) and cli._events_lock (elock), each taken with a
\* `with` statement: start(), stop(), snapshot(), GET /events and the
\* worker, one acquisition or release per step.
order_vars == << lock, elock, caller, reader, evreader, wk, running, njobs >>

order_rest == << inputs, dest, thread, stop_event, last_started,
                 last_finished, last_error, last_result, last_mode,
                 current_total, current_copied, stop_requested_flag, events,
                 ev_set, w, emitted, writes, stop_true, dest_after,
                 prev_result, prev_dest, polled, preset, appended, view,
                 geo_vars, arch_vars, extract_vars, flash, watch, parse >>

\* A `with _events_lock` block that never lets go of the lock.
ReleaseE_held(t) == t

\* cli.py:303, 309, 605: the events lock when the `with` block of thread t
\* is left.
ReleaseE(t) == "free"

\* cli.py:357-360: start() takes the job lock; while a job runs it returns
\* at once.
lo_start_enter ==
  /\ caller = "idle"
  /\ running \/ njobs < MaxJobs
  /\ lock = "free"
  /\ lock' = "caller"
  /\ caller' = "check"
  /\ UNCHANGED << order_rest, elock, reader, evreader, wk, running, njobs >>

lo_start_check ==
  /\ caller = "check"
  /\ IF running
     THEN lock' = "free" /\ caller' = "idle" /\ UNCHANGED running
     ELSE running' = TRUE /\ caller' = "reset" /\ UNCHANGED lock
  /\ UNCHANGED << order_rest, elock, reader, evreader, wk, njobs >>

\* cli.py:387, 303: _reset_events takes the events lock, under the job lock.
lo_start_reset_acq ==
  /\ caller = "reset"
  /\ elock = "free"
  /\ elock' = "caller"
  /\ caller' = "reset_in"
  /\ UNCHANGED << order_rest, lock, reader, evreader, wk, running, njobs >>

\* cli.py:304-305: the log is emptied and saved, the events lock released.
lo_start_reset_rel ==
  /\ caller = "reset_in"
  /\ elock' = ReleaseE("caller")
  /\ caller' = "thread"
  /\ UNCHANGED << order_rest, lock, reader, evreader, wk, running, njobs >>

\* cli.py:389-390: the worker is started, start() returns and the job lock
\* is released.
lo_start_return(left) ==
  /\ caller = "thread"
  /\ njobs' = njobs + 1
  /\ wk' = [pc |-> "cfg", job |-> njobs + 1, left |-> left, result |-> <<>>]
  /\ lock' = "free"
  /\ caller' = "idle"
  /\ UNCHANGED << order_rest, elock, reader, evreader, running >>

\* cli.py:392-399: stop(), the job lock taken and released.
lo_stop_enter ==
  /\ caller = "idle"
  /\ lock = "free"
  /\ lock' = "caller"
  /\ caller' = "stop_in"
  /\ UNCHANGED << order_rest, elock, reader, evreader, wk, running, njobs >>

lo_stop_exit ==
  /\ caller = "stop_in"
  /\ lock' = "free"
  /\ caller' = "idle"
  /\ UNCHANGED << order_rest, elock, reader, evreader, wk, running, njobs >>

\* cli.py:401-414: snapshot(), the job lock taken and released.
lo_snap_enter ==
  /\ reader = "idle"
  /\ lock = "free"
  /\ lock' = "reader"
  /\ reader' = "in"
  /\ UNCHANGED << order_rest, elock, caller, evreader, wk, running, njobs >>

lo_snap_exit ==
  /\ reader = "in"
  /\ lock' = "free"
  /\ reader' = "idle"
  /\ UNCHANGED << order_rest, elock, caller, evreader, wk, running, njobs >>

\* cli.py:603-606: GET /events, the events lock taken and released.
lo_ev_enter ==
  /\ evreader = "idle"
  /\ elock = "free"
  /\ elock' = "evreader"
  /\ evreader' = "in"
  /\ UNCHANGED << order_rest, lock, caller, reader, wk, running, njobs >>

lo_ev_exit ==
  /\ evreader = "in"
  /\ elock' = ReleaseE("evreader")
  /\ evreader' = "idle"
  /\ UNCHANGED << order_rest, lock, caller, reader, wk, running, njobs >>

\* Where the worker goes when it takes, and then leaves, the job lock.
JobLockPath ==
  [cb |-> "cb_in", cb_in |-> "ap",
   result |-> "result_in", result_in |-> "notify",
   exc |-> "exc_in", exc_in |-> "excev",
   final |-> "final_in", final_in |-> "done"]

\* Where the worker goes when it takes, and then leaves, the events lock.
EventsLockPath ==
  [ap |-> "ap_in", ap_in |-> "file",
   excev |-> "excev_in", excev_in |-> "notify",
   notify |-> "notify_in", notify_in |-> "final"]

\* cli.py:424-443: the worker builds its CopyProcess, or raises.
lo_w_cfg(ok) ==
  /\ wk.pc = "cfg"
  /\ wk' = [wk EXCEPT !.pc = IF ok THEN "file" ELSE "exc"]
  /\ UNCHANGED << order_rest, lock, elock, caller, reader, evreader, running,
                  njobs >>

\* copy_process.py:60-126: a file of the walk ends in a callback, which
\* for "copied" first counts under the job lock (cli.py:445-449); after
\* the last file the result is stored (cli.py:458-459).
lo_w_file(copied) ==
  /\ wk.pc = "file"
  /\ IF wk.left = 0
     THEN ~copied /\ wk' = [wk EXCEPT !.pc = "result"]
     ELSE wk' = [wk EXCEPT !.left = @ - 1,
                           !.pc = IF copied THEN "cb" ELSE "ap"]
  /\ UNCHANGED << order_rest, lock, elock, caller, reader, evreader, running,
                  njobs >>

\* cli.py:446, 458, 461, 526: `with self._lock` is entered.
lo_w_lock ==
  /\ wk.pc \in {"cb", "result", "exc", "final"}
  /\ lock = "free"
  /\ lock' = "worker"
  /\ wk' = [wk EXCEPT !.pc = JobLockPath[wk.pc]]
  /\ UNCHANGED << order_rest, elock, caller, reader, evreader, running,
                  njobs >>

\* cli.py:447-449, 459, 462, 527-530: the block is left; the last one
\* clears the running flag.
lo_w_unlock ==
  /\ wk.pc \in {"cb_in", "result_in", "exc_in", "final_in"}
  /\ lock' = "free"
  /\ running' = IF wk.pc = "final_in" THEN FALSE ELSE running
  /\ wk' = [wk EXCEPT !.pc = JobLockPath[wk.pc]]
  /\ UNCHANGED << order_rest, elock, caller, reader, evreader, njobs >>

\* cli.py:309: _append_event enters `with _events_lock` (from progress_cb,
\* cli.py:450, and from _run, cli.py:463-525).
lo_w_elock ==
  /\ wk.pc \in {"ap", "excev", "notify"}
  /\ elock = "free"
  /\ elock' = "worker"
  /\ wk' = [wk EXCEPT !.pc = EventsLockPath[wk.pc]]
  /\ UNCHANGED << order_rest, lock, caller, reader, evreader, running,
                  njobs >>

\* cli.py:310-322: the event is appended and saved, the block left.
lo_w_eunlock ==
  /\ wk.pc \in {"ap_in", "excev_in", "notify_in"}
  /\ elock' = ReleaseE("worker")
  /\ wk' = [wk EXCEPT !.pc = EventsLockPath[wk.pc]]
  /\ UNCHANGED << order_rest, lock, caller, reader, evreader, running,
                  njobs >>

InitOrder ==
  CopyInit({[d \in Dirs |-> <<>>]}, {FALSE}, {NoFormats}, {<<>>}) /\ GeoIdle
  /\ ArchIdle /\ ExtractIdle /\ SideIdle

CallerSteps ==
  \/ lo_start_check
  \/ lo_start_reset_acq
  \/ lo_start_reset_rel
  \/ \E left \in 0..MaxLockFiles : lo_start_return(left)
  \/ lo_stop_exit

WorkerSteps ==
  \/ \E ok \in BOOLEAN : lo_w_cfg(ok)
  \/ \E copied \in BOOLEAN : lo_w_file(copied)
  \/ lo_w_lock
  \/ lo_w_unlock
  \/ lo_w_elock
  \/ lo_w_eunlock

NextOrder ==
  \/ lo_start_enter
  \/ lo_stop_enter
  \/ lo_snap_enter
  \/ lo_snap_exit
  \/ lo_ev_enter
  \/ lo_ev_exit
  \/ CallerSteps
  \/ WorkerSteps

SpecOrder == InitOrder /\ [][NextOrder]_vars

\* A thread inside a call goes on: one that waits for a lock gets it when
\* the lock is released often enough, and one inside a `with` block
\* leaves it (no write of copy_events.json hangs).
FairOrder ==
  /\ SpecOrder
  /\ SF_vars(CallerSteps)
  /\ SF_vars(WorkerSteps)
  /\ WF_vars(lo_snap_exit)
  /\ WF_vars(lo_ev_exit)

\* ------------------------------------------------------------- the watcher
\* watcher.py:138, the sleep at the end of each iteration, in seconds.
POLL_SEC == 10

\* The contents config.txt may have: which paths it names and its
\* COOLDOWN_SEC.  valid = FALSE: run_copy_process raises on it (a missing
\* SRC, DST or ARCHIVE key, watcher.py:70-72).
WatchConfigs ==
  [paths : {"a", "b"}, COOLDOWN_SEC : {0, 30}, valid : BOOLEAN]

\* watcher.py:48-54: the SHA-256 of the file's bytes, one per content.
config_signature(c) == <<c.paths, c.COOLDOWN_SEC, c.valid>>

\* watcher.py:102-105 and the clock: the locals of main before its loop.
\* cfg is config.txt, <<>> while there is none; started describes the last
\* run the loop started.
Watch0(cfg) ==
  [cfg |-> cfg, now |-> 0, polls |-> 0, last_sig |-> <<>>,
   last_copy_end |-> 0, min_cooldown_sec |-> 0, runs |-> 0,
   started |-> <<>>]

\* config.txt is written, with another content, or removed.
wt_edit(cfg) ==
  /\ cfg # watch.cfg
  /\ watch.polls < MaxPolls
  /\ watch' = [watch EXCEPT !.cfg = cfg]
  /\ UNCHANGED << copy_vars, geo_vars, arch_vars, extract_vars, elock,
                  evreader, flash, parse >>

\* watcher.py:120: the cooldown the loop compares since_last with.
Cooldown(w0, c) == w0.min_cooldown_sec

\* watcher.py:107-138: one iteration of the loop and its sleep; a run that
\* is started takes secs seconds.
wt_poll(secs) ==
  /\ watch.polls < MaxPolls
  /\ LET idle == [watch EXCEPT !.now = @ + POLL_SEC, !.polls = @ + 1]
     IN IF watch.cfg = <<>>
        THEN secs = 0 /\ watch' = idle
        ELSE LET c == watch.cfg[1]
                 sig == config_signature(c)
                 since_last == watch.now - watch.last_copy_end
             IN IF watch.last_sig = <<>>
                THEN secs = 0 /\ watch' = [idle EXCEPT !.last_sig = <<sig>>]
                ELSE IF sig = watch.last_sig[1]
                        \/ since_last < Cooldown(watch, c)
                THEN secs = 0 /\ watch' = idle
                ELSE watch' =
                       [watch EXCEPT
                          !.last_sig = <<sig>>,
                          !.min_cooldown_sec =
                             IF c.valid THEN c.COOLDOWN_SEC ELSE @,
                          !.last_copy_end = watch.now + secs,
                          !.now = watch.now + secs + POLL_SEC,
                          !.polls = @ + 1,
                          !.runs = @ + 1,
                          !.started =
                             <<[at |-> watch.now, since |-> since_last,
                                COOLDOWN_SEC |-> c.COOLDOWN_SEC,
                                valid |-> c.valid,
                                previous |-> watch.runs,
                                sig |-> sig, last_sig |-> watch.last_sig]>>]
  /\ UNCHANGED << copy_vars, geo_vars, arch_vars, extract_vars, elock,
                  evreader, flash, parse >>

InitWatch ==
  /\ CopyInit({[d \in Dirs |-> <<>>]}, {FALSE}, {NoFormats}, {<<>>})
  /\ GeoIdle /\ ArchIdle /\ ExtractIdle
  /\ elock = "free" /\ evreader = "idle" /\ flash = <<>> /\ parse = <<>>
  /\ watch \in { Watch0(cfg) : cfg \in {<<>>} \cup {<<c>> : c \in WatchConfigs} }

NextWatch ==
  \/ \E cfg \in {<<>>} \cup {<<c>> : c \in WatchConfigs} : wt_edit(cfg)
  \/ \E secs \in {0, 5} : wt_poll(secs)

SpecWatch == InitWatch /\ [][NextWatch]_vars

\* ------------------------------------------------- the flash drive's kind
\* cli.py:98-118, a classification that asks for the camera before the
\* drone.
classify_flash_camera_first(image_files, video_files, has_dji_prefix, has_lrf, has_srt, camera_detected) ==
  IF has_lrf THEN "Pocket"
  ELSE IF camera_detected THEN "Foto"
  ELSE IF has_dji_prefix /\ has_srt THEN "Drone"
  ELSE IF image_files > 0 /\ video_files = 0 THEN "Foto"
  ELSE IF video_files > 0 /\ image_files = 0 THEN "Drone"
  ELSE "Foto"

\* cli.py:98-118
classify_flash(image_files, video_files, has_dji_prefix, has_lrf, has_srt, camera_detected) ==
  IF has_lrf THEN "Pocket"
  ELSE IF has_dji_prefix /\ has_srt THEN "Drone"
  ELSE IF camera_detected THEN "Foto"
  ELSE IF image_files > 0 /\ video_files = 0 THEN "Foto"
  ELSE IF video_files > 0 /\ image_files = 0 THEN "Drone"
  ELSE IF image_files > 0 /\ video_files > 0 THEN "Foto"
  ELSE "Foto"

\* fname.lower() on the names that occur on the drive (cli.py:177).
LowerBase(b) ==
  CASE b = "DJI_0001" -> "dji_0001"
    [] b = "IMG_0001" -> "img_0001"
    [] OTHER -> b

\* name_lower.startswith("dji") (cli.py:192).
StartsWithDji(name_lower) == name_lower \in {"dji_0001"}

\* The files a drive may hold; cam says whether _read_exif_info finds a
\* make, a model or a serial number in the file (cli.py:120-148).
FlashFiles ==
  { [base |-> b, ext |-> e, cam |-> c] :
      b \in {"DJI_0001", "IMG_0001"}, e \in {".JPG"}, c \in BOOLEAN }
  \cup
  { [base |-> b, ext |-> e, cam |-> FALSE] :
      b \in {"DJI_0001", "IMG_0001"}, e \in {".mp4", ".srt", ".lrf", ".txt"} }

\* The listings of the drive, by length.
FlashDirs(n) ==
  UNION { [1..k -> FlashFiles] : k \in 0..n }

\* cli.py:164-173: the locals of _inspect_flash before its walk.
Flash0(present, files) ==
  [present |-> present, files |-> files, i |-> 1, total |-> 0, images |-> 0,
   videos |-> 0, has_lrf |-> FALSE, has_srt |-> FALSE, has_dji_prefix |-> FALSE,
   camera |-> FALSE, kind |-> ""]

\* cli.py:174-196: one file of the walk.
inspect_file ==
  /\ flash.present /\ flash.kind = ""
  /\ flash.i <= Len(flash.files)
  /\ LET f == flash.files[flash.i]
         name_lower == LowerBase(f.base)
         ext == Lower(f.ext)
         photo == ext \in {Lower(e) : e \in Range(DEFAULT_PHOTO_EXT)}
         video == ~photo /\ ext \in {Lower(e) : e \in Range(DEFAULT_VIDEO_EXT)}
     IN flash' = [flash EXCEPT
                    !.i = @ + 1,
                    !.total = @ + 1,
                    !.images = IF photo THEN @ + 1 ELSE @,
                    !.videos = IF video THEN @ + 1 ELSE @,
                    !.camera = IF photo /\ ~@ THEN f.cam ELSE @,
                    !.has_dji_prefix = @ \/ StartsWithDji(name_lower),
                    !.has_lrf = @ \/ ext = ".lrf",
                    !.has_srt = @ \/ ext = ".srt"]
  /\ UNCHANGED << copy_vars, geo_vars, arch_vars, extract_vars, elock,
                  evreader, watch, parse >>

\* cli.py:151-162, 201-211: _inspect_flash returns, with no kind when the
\* path is no directory.
inspect_return ==
  /\ flash.kind = ""
  /\ flash.present => flash.i > Len(flash.files)
  /\ flash' = [flash EXCEPT !.kind =
        IF ~flash.present THEN None
        ELSE classify_flash(flash.images, flash.videos, flash.has_dji_prefix,
                            flash.has_lrf, flash.has_srt, flash.camera)]
  /\ UNCHANGED << copy_vars, geo_vars, arch_vars, extract_vars, elock,
                  evreader, watch, parse >>

InitFlash ==
  /\ CopyInit({[d \in Dirs |-> <<>>]}, {FALSE}, {NoFormats}, {<<>>})
  /\ GeoIdle /\ ArchIdle /\ ExtractIdle
  /\ elock = "free" /\ evreader = "idle" /\ watch = <<>> /\ parse = <<>>
  /\ flash \in { Flash0(TRUE, fs) : fs \in FlashDirs(MaxFlashFiles) }
               \cup { Flash0(FALSE, <<>>) }

NextFlash == inspect_file \/ inspect_return

SpecFlash == InitFlash /\ [][NextFlash]_vars

\* The worker is a thread the scheduler keeps running: each of its steps
\* returns (no file operation and no notification call hangs).
FairSpec == Spec /\ \A j \in Jobs : WF_vars(run(j))

\* -------------------------------------------------------------- properties
\* The workers that are running: threads started and not yet ended.
Alive == { j \in Jobs : w[j].pc \notin {"none", "done"} }

\* C1: at most one worker is running in every reachable state, and a step
\* taken while a job is running (a start() among them) launches no worker:
\* the start is rejected, it is not queued.
C1_SingleWorker ==
  [][ /\ Cardinality(Alive') <= 1
      /\ (running' <=> Alive' # {})
      /\ (running => Alive' \subseteq Alive /\ njobs' = njobs) ]_vars

\* A start() was rejected while the second job was running.
C1_Witness ==
  running /\ njobs = 2 /\ last_error = ALREADY_RUNNING /\ Cardinality(Alive) = 1

\* C2: every write copy_files makes into the destination tree, of a file or
\* of a video's sidecar, goes to a path that did not exist just before it.
C2_NeverOverwrites == \A wr \in writes : ~wr.existed

\* The worker of job j has seen the stop signal.
Stopped(j) == w[j].summary.stopped

\* C3: the iteration that sees the stop signal emits one 'stopped' event,
\* sets summary.stopped, leaves the counters and the destination alone and
\* ends the walk; after it the run changes no counter, copies nothing and
\* emits nothing.
C3_StopEndsWalk ==
  [][ \A j \in Jobs :
        /\ (~Stopped(j) /\ Stopped(j)') =>
             /\ w'[j].summary = [w[j].summary EXCEPT !.stopped = TRUE]
             /\ w'[j].at = End
             /\ emitted' = Append(emitted, Ev("stopped", "", None, None))
             /\ dest' = dest
        /\ (Stopped(j) /\ w'[j].pc # "done") =>
             /\ w'[j].summary = w[j].summary
             /\ w'[j].at = End
             /\ emitted' = emitted
             /\ dest' = dest ]_vars

\* The stop was seen at the file of the first directory, and the second
\* directory holds a file that is never visited.
C3_Witness ==
  \E j \in Jobs :
    /\ Stopped(j) /\ w[j].pc = "notify"
    /\ Len(src_tree[1]) = 1 /\ Len(src_tree[2]) = 1
    /\ w[j].summary.processed = 0
    /\ emitted = <<Ev("stopped", "", None, None)>>

\* C4: every job that start() launched eventually has running = FALSE with
\* a finish timestamp recorded, whatever happened in the worker (a result, a
\* job-level exception, a notification that could not be sent), and in that
\* state a new start() is accepted.
C4_JobEnds ==
  running ~> ( /\ ~running
               /\ last_finished = "ts"
               /\ (njobs < MaxJobs => ENABLED start_launch(FullConfig)) )

\* A job whose constructors raised and whose notification could not be sent
\* has ended, and the next job was launched after it.
C4_Witness ==
  /\ njobs = 2 /\ ~running /\ last_finished = "ts"
  /\ last_result = <<>> /\ last_error = CTOR_FAILED
  /\ Len(events) > 0 /\ events[Len(events)].error = "not sent"

\* C5 as stated: whenever stop() returned TRUE during a job, the CopyResult
\* of that job has stopped = TRUE.
C5_StopAlwaysReported ==
  (stop_true /\ last_result # <<>>) => last_result[1].stopped

\* C5: the CopyResult of a job has stopped = TRUE exactly when a file
\* iteration of its walk began after a stop() returned TRUE during the job,
\* whatever its error count; a stop() that comes after the last file
\* iteration leaves stopped = FALSE.
C5_StopReportedWhenPolled ==
  last_result # <<>> =>
    /\ last_result[1].stopped <=> polled
    /\ last_result[1].stopped => stop_true

\* A job that had a per-file error and was then stopped.
C5_Witness ==
  /\ last_result # <<>> /\ stop_true /\ polled
  /\ last_result[1].stopped /\ last_result[1].errors > 0

\* Two runs of copy_files over the same source, destination and
\* configuration have both returned, neither was stopped and neither had a
\* per-file error.
TwoCleanRuns ==
  /\ prev_result # <<>> /\ last_result # <<>>
  /\ ~prev_result[1].stopped /\ ~last_result[1].stopped
  /\ prev_result[1].errors = 0 /\ last_result[1].errors = 0

\* C6 as stated: the second run has copied = N and skipped = N, N the
\* number of files the first run copied, and leaves the destination as the
\* first run left it.
C6_SecondRunCopiedN ==
  TwoCleanRuns =>
    /\ last_result[1].copied = prev_result[1].copied
    /\ last_result[1].skipped = prev_result[1].copied
    /\ dest_after = prev_dest

\* C6: the second run copies no file and skips every file the first run
\* copied or skipped, and the content of every destination file is as the
\* first run left it.
C6_SecondRunSkipsAll ==
  TwoCleanRuns =>
    /\ last_result[1].copied = 0
    /\ last_result[1].skipped = prev_result[1].copied + prev_result[1].skipped
    /\ last_result[1].processed = prev_result[1].processed
    /\ dest_after = prev_dest

\* The first run copied a file and skipped its namesake of the other
\* directory; the second run skipped both.
C6_Witness ==
  /\ TwoCleanRuns
  /\ prev_result[1].copied = 1 /\ prev_result[1].skipped = 1
  /\ last_result[1].skipped = 2

\* The files of the source tree, by position, and those the walk has been
\* through when it stands at position at.
Files == { p \in Dirs \X (1..Len(FileUniverse)) : p[2] <= Len(src_tree[p[1]]) }
Before(at) ==
  { p \in Files : at = End \/ p[1] < at[1] \/ (p[1] = at[1] /\ p[2] < at[2]) }
FileAt(p) == src_tree[p[1]][p[2]]

\* The files the extension filter is said to leave out: the extension,
\* compared without regard to case, is not in the list of allowed
\* extensions and is not .srt.
FilteredOut ==
  { p \in Files :
      /\ Lower(FileAt(p).ext) \notin
           { Lower(e) : e \in Range(IF allowed_formats.given
                                     THEN allowed_formats.exts
                                     ELSE DEFAULT_PHOTO_EXT \o DEFAULT_VIDEO_EXT) }
      /\ Lower(FileAt(p).ext) # ".srt" }

\* No event of the job is about a filtered-out file, and processed counts
\* exactly the other files the walk has been through.
FilterApplied ==
  /\ \A i \in DOMAIN emitted :
       \A p \in FilteredOut : emitted[i].src # src_path(p[1], FileAt(p))
  /\ \A j \in Jobs :
       (w[j].pc = "walk" /\ ~w[j].summary.stopped) =>
          w[j].summary.processed = Cardinality(Before(w[j].at) \ FilteredOut)

\* C7 as stated: for every list of allowed extensions, an empty one
\* included, a file whose extension is neither in the list nor .srt is not
\* counted in processed and no event is emitted for it.
C7_FilterEveryList == FilterApplied

\* C7: for every list of allowed extensions that is not empty (the default
\* list when none is given), a file whose extension is neither in the list
\* nor .srt is not counted in processed and no event is emitted for it.
C7_FilterNonEmptyList ==
  (~allowed_formats.given \/ allowed_formats.exts # <<>>) => FilterApplied

\* The walk under the list <<".JPG">> has passed a file that is left out
\* and processed a file that is not.
C7_Witness ==
  \E j \in Jobs :
    /\ allowed_formats.given /\ allowed_formats.exts = <<".JPG">>
    /\ w[j].pc = "walk" /\ w[j].at = End /\ ~w[j].summary.stopped
    /\ Before(End) \cap FilteredOut # {}
    /\ w[j].summary.processed = 1
    /\ Len(emitted) = 1

\* No file was processed, the result is marked stopped and the job emitted
\* no 'copied' event.
NothingCopied ==
  /\ last_result[1].processed = 0
  /\ last_result[1].stopped
  /\ \A i \in DOMAIN emitted : emitted[i].kind # "copied"

\* C8 as stated: for every source tree, a run whose stop signal was set
\* before the first file ends with processed = 0, stopped = TRUE and no
\* 'copied' event.
C8_PresetStopEveryTree ==
  (last_result # <<>> /\ preset) => NothingCopied

\* C8: for every source tree that holds a file, a run whose stop signal was
\* set before the first file ends with processed = 0, stopped = TRUE and no
\* 'copied' event.
C8_PresetStop ==
  (last_result # <<>> /\ preset /\ Files # {}) => NothingCopied

\* A run over two directories with a file each, stopped before its first
\* file, has returned.
C8_Witness ==
  /\ last_result # <<>> /\ preset
  /\ Len(src_tree[1]) = 1 /\ Len(src_tree[2]) = 1
  /\ dest_after = <<>>
  /\ last_result[1].stopped

\* The 'error' events among the callbacks es.
ErrorEvents(es) == { i \in DOMAIN es : es[i].kind = "error" }

\* The files the walk at position at has attempted: those it has been
\* through that pass the extension filter.
Attempted(at) ==
  { p \in Before(at) :
      Eligible(AllowedList(allowed_formats), Lower(FileAt(p).ext)) }

\* C9: an exception raised while one eligible file is processed adds one to
\* errors and emits one 'error' event that carries the message and the
\* file's path, and the walk goes on with the next file: errors is the
\* number of 'error' events, and processed counts every eligible file the
\* walk has been through, those after a failed file included.
C9_ErrorRecovered ==
  /\ [](\A j \in Jobs :
         w[j].pc = "walk" =>
           /\ w[j].summary.errors = Cardinality(ErrorEvents(emitted))
           /\ \A i \in ErrorEvents(emitted) :
                /\ emitted[i].error = "exc"
                /\ \E p \in Files : emitted[i].src = src_path(p[1], FileAt(p))
           /\ ~w[j].summary.stopped =>
                w[j].summary.processed = Cardinality(Attempted(w[j].at)))
  /\ [][ \A j \in Jobs :
           (w[j].pc = "walk" /\ w'[j].pc = "walk"
              /\ w'[j].summary.errors # w[j].summary.errors) =>
             /\ w'[j].summary.errors = w[j].summary.errors + 1
             /\ w'[j].summary.processed = w[j].summary.processed + 1
             /\ Cardinality(ErrorEvents(emitted')) =
                  Cardinality(ErrorEvents(emitted)) + 1
             /\ w'[j].at = NextPos(src_tree, w[j].at[1], w[j].at[2] + 1) ]_vars

\* The first file of the walk failed and the file after it was copied.
C9_Witness ==
  \E j \in Jobs :
    /\ w[j].pc = "walk" /\ w[j].at = End
    /\ w[j].summary.processed = 2 /\ w[j].summary.errors = 1
    /\ w[j].summary.copied = 1
    /\ Len(emitted) = 2
    /\ emitted[1].kind = "error" /\ emitted[2].kind = "copied"

\* The year and the date of the two days of the fixtures, as the folder
\* names spell them.
YearName(dt) == IF dt = D1 THEN "2024" ELSE "2023"
DateName(dt) == IF dt = D1 THEN "2024-03-05" ELSE "2023-12-31"

\* The folder named after the day and the place of the file at p:
\* {dest}/{year}/{year}-{MM}-{DD}-{city} when process_file confirmed a
\* location or archive mode is on, {dest}/{year}/{year}-{MM}-{DD} otherwise.
NamedFolder(p) ==
  LET f == FileAt(p)
      m == process_file(src_tree, p[1], f, use_archive,
                        AllowedList(allowed_formats))
  IN "DST/" \o YearName(f.mtime) \o "/" \o DateName(f.mtime) \o
       (IF m.location_found \/ use_archive THEN "-" \o m.city ELSE "")

HasVideoExt(f) == Lower(f.ext) \in {".mp4", ".avi", ".mov", ".mkv"}

\* Where the file at p is to be copied.
NamedPath(p) ==
  NamedFolder(p) \o (IF HasVideoExt(FileAt(p)) THEN "/Videos" ELSE "")
                 \o "/" \o fname(FileAt(p))

\* C10: every file copied into the destination tree is in the folder named
\* after its day, with the city when a location was confirmed or archive
\* mode is on and without it otherwise; a file with a video extension is in
\* the Videos subfolder below it, and the sidecar of a video is copied into
\* the Videos subfolder of its video.
C10_DestinationNaming ==
  \A wr \in writes :
    \E p \in Files :
      \/ wr.src = src_path(p[1], FileAt(p)) /\ wr.path = NamedPath(p)
      \/ /\ HasVideoExt(FileAt(p))
         /\ \E g \in SrtOf(src_tree, p[1], FileAt(p)) :
              /\ wr.src = src_path(p[1], g)
              /\ wr.path = NamedFolder(p) \o "/Videos/" \o fname(g)

\* A job without archive mode copied a photo of 2024-03-05 with GPS of
\* Paris and a video of that day that has no location.
C10_Witness ==
  /\ ~use_archive
  /\ { wr.path : wr \in writes } =
       { "DST/2024/2024-03-05-Paris/IMG_0001.jpg",
         "DST/2024/2024-03-05/Videos/CLIP_0001.mp4" }

\* The files of the source tree that are sidecars.
SrtFiles == { p \in Files : Lower(FileAt(p).ext) = ".srt" }

\* C11: every .srt file written into the destination tree is written into
\* the Videos subfolder of a video of its directory that has its base name;
\* no .srt file is copied as a file of the walk in its own right.
C11_SidecarOnlyWithVideo ==
  \A wr \in writes :
    \A q \in SrtFiles :
      wr.src = src_path(q[1], FileAt(q)) =>
        \E p \in Files :
          /\ p[1] = q[1]
          /\ HasVideoExt(FileAt(p))
          /\ FileAt(p).base = FileAt(q).base
          /\ wr.path = NamedFolder(p) \o "/Videos/" \o fname(FileAt(q))

\* The status of the job as a snapshot() shows it.
Status ==
  LET s == snapshot
  IN IF s.running THEN (IF s.stop_requested THEN "stopping" ELSE "running")
     ELSE IF s.last_finished # None THEN "finished"
     ELSE "idle"

\* The steps of the status: from finished, the state in which the controller
\* is idle again, the next start() leads to running.
StatusSteps ==
  { <<"idle", "running">>, <<"running", "stopping">>,
    <<"running", "finished">>, <<"stopping", "finished">>,
    <<"finished", "running">> }

\* C12: the status seen through snapshot() changes only along idle ->
\* running -> (running | stopping) -> finished -> (idle) -> running: a
\* stopping job does not become running again, finished is entered only from
\* running or stopping, and the worker of a new job is created only when
\* the status is idle or finished.
C12_StatusOrder ==
  [][ /\ Status' # Status => <<Status, Status'>> \in StatusSteps
      /\ (thread' # thread /\ thread' # <<>>) => Status \in {"idle", "finished"}
    ]_vars

\* The second job was stopped and has finished.
C12_Witness ==
  njobs = 2 /\ Status = "finished" /\ stop_requested_flag

\* What start() has reset: the counter, the error, the result and the finish
\* timestamp of the job before, the stop signal; and the start timestamp.
ResetState ==
  /\ running /\ last_started = "ts"
  /\ current_copied = <<0>>
  /\ last_error = None /\ last_result = <<>> /\ last_finished = None
  /\ stop_event = <<njobs>> /\ ~ev_set[njobs] /\ ~stop_requested_flag

\* The files the log and the worker say were copied.
CopiedCount ==
  Cardinality({i \in 1..Len(events) : events[i].kind = "copied"})
    + (IF wk.pc = "cbev" THEN 1 ELSE 0)

\* C13 as stated: at the step at which a successful start() returns,
\* current_copied is 0, the event log is empty, last_error, last_result and
\* last_finished are absent, the stop signal is clear and a start timestamp
\* is recorded.
C13_ResetAtReturn ==
  [][ (caller = "return" /\ caller' = "idle") =>
        (ResetState' /\ events' = <<>>) ]_vars

\* C13, amended: the log is empty, with all the rest reset, at the step
\* at which start() starts the worker thread; at the step at which it
\* returns the rest is still reset; and from the reset on the log holds
\* events of the new job only and current_copied counts its copied files
\* only.
C13_ResetByStart ==
  /\ [](appended # <<>> =>
          /\ \A i \in 1..Len(events) : events[i] \in
                 { JobEv(k, njobs) :
                     k \in {"copied", "skipped", "error", "stopped", "info"} }
          /\ caller \notin {"scan", "reset"} =>
                current_copied = <<CopiedCount>>)
  /\ [][
        /\ (caller = "thread" /\ caller' = "return") =>
              (ResetState' /\ events' = <<>>)
        /\ (caller = "return" /\ caller' = "idle") => ResetState'
      ]_vars

\* The second start() is about to return: the events of the first job are
\* gone and the worker of the second has already skipped a file.
C13_Witness ==
  /\ caller = "return" /\ njobs = 2 /\ ResetState
  /\ events = <<JobEv("skipped", 2)>>

\* C14: while no job is running no stop signal is set and no step sets
\* one (a stop() is rejected then, last_error tells so), and every job
\* starts with a stop signal of its own that is clear; a stop() accepted
\* while a job is running sets the signal and nothing else: running stays
\* TRUE and the worker is where it was, and running is cleared only by the
\* last step of the worker.
C14_StopOnlySignals ==
  /\ [](~running => (stop_event = <<>> /\ \A j \in Jobs : ~ev_set[j]))
  /\ [][
        /\ ~running =>
             /\ \A j \in Jobs : ~ev_set'[j]
             /\ stop_true' => stop_true
             /\ stop_requested_flag' => stop_requested_flag
             /\ (njobs' = njobs /\ w' = w) => last_error' \in {last_error, NOT_RUNNING}
        /\ njobs' # njobs =>
             /\ stop_event' = <<njobs'>> /\ ~ev_set'[njobs']
             /\ ~snapshot'.stop_requested
        /\ (\E j \in Jobs : ev_set'[j] /\ ~ev_set[j]) =>
             /\ running /\ running'
             /\ stop_event # <<>> /\ ev_set' = [ev_set EXCEPT ![stop_event[1]] = TRUE]
             /\ stop_true'
             /\ w' = w /\ thread' = thread /\ stop_event' = stop_event
             /\ last_finished' = last_finished /\ last_result' = last_result
        /\ (running /\ ~running') =>
             \E j \in Jobs : w[j].pc = "final" /\ w'[j].pc = "done"
      ]_vars

\* A stop() was rejected after the first job; the second job was then
\* stopped and is still running.
C14_Witness ==
  /\ njobs = 2 /\ running /\ stop_true /\ ev_set[2]
  /\ w[2].pc = "walk" /\ w[2].at # End

\* The job j was configured without a source or without a destination.
LacksPath(j) == w[j].cfg.SRC = "" \/ w[j].cfg.DST = ""

\* C15: a worker whose configuration lacks the source or the destination
\* directory records the message as last_error and appends an 'error'
\* event with it in its first step, processes no file (no callback, no
\* write, last_result stays absent) and goes on to the notification and
\* the end of the job, which clears running and sets the finish timestamp.
C15_NoPathsFatal ==
  /\ [](\A j \in Jobs :
         (LacksPath(j) /\ w[j].pc \in {"notify", "final"}) =>
            /\ running /\ last_result = <<>> /\ w[j].result = <<>>
            /\ emitted = <<>> /\ writes = {}
            /\ current_copied = <<0>>
            /\ events # <<>> /\ events[1] = Ev("error", "", None, NO_PATHS))
  /\ [][ \A j \in Jobs :
           /\ (LacksPath(j) /\ w[j].pc = "init" /\ w'[j] # w[j]) =>
                /\ w'[j].pc = "notify"
                /\ last_error' = NO_PATHS
                /\ events' = <<Ev("error", "", None, NO_PATHS)>>
                /\ dest' = dest
           /\ (LacksPath(j) /\ w[j].pc = "notify" /\ w'[j] # w[j]) =>
                w'[j].pc = "final" /\ w'[j].msg = "failed"
           /\ (LacksPath(j) /\ w[j].pc = "final" /\ w'[j] # w[j]) =>
                /\ ~running' /\ last_finished' = "ts"
                /\ last_result' = <<>> /\ dest' = dest
                /\ w'[j].pc = "done" ]_vars

\* The job without paths has finished: its error, its two events (the
\* error and the notification) and no result.
C15_Witness ==
  /\ ~running /\ last_finished = "ts" /\ last_error = NO_PATHS
  /\ last_result = <<>> /\ Len(events) = 2
  /\ events[1].kind = "error" /\ events[2].src = "Telegram"
  /\ dest = <<>>

\* C16: the event log never holds more than 500 entries, and after n
\* appends since the last reset it is the sequence of the min(n, 500) last
\* appended events, in the order they were appended.
C16_LogCapped ==
  /\ Len(events) <= EVENTS_CAP
  /\ appended # <<>> =>
       LET n == appended[1]
           m == IF n < EVENTS_CAP THEN n ELSE EVENTS_CAP
       IN events = [i \in 1..m |-> LogEv(n - m + i)]

\* The 501st append since the reset has dropped the first event.
C16_Witness ==
  /\ appended = <<EVENTS_CAP + 1>>
  /\ Len(events) = EVENTS_CAP
  /\ events[1] = LogEv(2) /\ events[EVENTS_CAP] = LogEv(EVENTS_CAP + 1)

\* The statement the thread t is at reads a directory, writes or copies a
\* file, or calls the network.
InIO(t) ==
  CASE t = "caller" -> caller \in {"scan", "reset"}
    [] t = "worker" -> wk.pc \in {"cfg", "file", "cbev", "excev", "notify"}
    [] OTHER -> FALSE

\* C17: no thread scans a directory, writes a file, copies a file or calls
\* the network while it holds the job lock.
C17_NoIOUnderLock ==
  \A t \in {"caller", "reader", "worker"} : lock = t => ~InIO(t)

\* A view that shows no running job with a finish timestamp, and no ended
\* job without one.
ConsistentView(v) ==
  /\ v.running => v.last_finished = None
  /\ (~v.running /\ v.last_started # None) => v.last_finished # None

\* C18: the view snapshot() returns is the state of that instant, and it
\* never shows running together with a finish timestamp, nor a job that is
\* over without one.
C18_SnapshotConsistent ==
  /\ [](reader = "idle" => ConsistentView(view))
  /\ [][ (reader = "read2" /\ reader' = "idle") => view' = snapshot' ]_vars

\* A snapshot taken in the middle of the second job, after its stop was
\* requested: the finish timestamp of the first job is not in it.
C18_Witness ==
  /\ reader = "idle" /\ njobs = 2
  /\ view.running /\ view.stop_requested
  /\ view.last_finished = None /\ view.last_started = "ts"

\* A step that is a call of a constructor or of get_city_from_coordinates:
\* geo' and raised' are what it did.
CallStep == env' = env /\ readable' \in {readable, TRUE}

C20_NeverEvicted ==
  \A p \in resolved : store # <<>> /\ p[1] \in {q[1] : q \in store[1]}

\* The dict of the instance that made the last call.
CacheOf(by) == IF by = "fp" THEN fp_cache ELSE lh_cache

\* C21: once geocache.json maps a key to a city, every later call of
\* get_city_from_coordinates for the key that returns, through
\* FileProcessor or through LocationHistory, returns that city, and no call
\* changes the city the file holds under the key.
C21_NeverDowngrades ==
  [][ (CallStep /\ ~raised' /\ store # <<>>) =>
        \A p \in store[1] :
          /\ (geo'.by \in {"fp", "lh"} /\ geo'.key = p[1]) =>
                geo'.city = p[2]
          /\ \A q \in store'[1] : q[1] = p[1] => q[2] = p[2]
  ]_vars

\* The call of the instance `by`, whose dict is cache before and cache2
\* after it, found no key and no tier that answers: it returns the
\* sentinel and leaves its dict and geocache.json as they were, without
\* the key.
SentinelNotCached(by, cache, cache2) ==
  (geo'.by = by /\ geo'.key \notin DOMAIN cache
     /\ ~env.offline /\ ~env.online) =>
    /\ geo'.city = UNKNOWN_CITY /\ ~raised'
    /\ geo'.tiers = {"offline", "online"}
    /\ cache2 = cache /\ store' = store

\* C22: when the cache and both tiers fail for a coordinate the call
\* returns the sentinel and caches nothing, in memory or in geocache.json;
\* the sentinel is never a cached value; and a call for a key its dict
\* does not hold tries the tiers.
C22_SentinelNotCached ==
  /\ [](/\ \A k \in DOMAIN fp_cache : fp_cache[k] # UNKNOWN_CITY
        /\ \A k \in DOMAIN lh_cache : lh_cache[k] # UNKNOWN_CITY
        /\ store # <<>> => \A p \in store[1] : p[2] # UNKNOWN_CITY)
  /\ [][ CallStep =>
          /\ SentinelNotCached("fp", fp_cache, fp_cache')
          /\ SentinelNotCached("lh", lh_cache, lh_cache')
          /\ (geo'.by = "fp" /\ geo'.key \notin DOMAIN fp_cache) =>
                geo'.tiers # {}
          /\ (geo'.by = "lh" /\ geo'.key \notin DOMAIN lh_cache) =>
                geo'.tiers # {}
      ]_vars

\* Both tiers are down and FileProcessor has returned the sentinel for
\* (48.8566, 2.3522): neither its dict nor geocache.json, which holds what
\* was resolved before, has the key.
C22_Witness ==
  /\ ~env.offline /\ ~env.online
  /\ geo = [by |-> "fp", key |-> "48.8566,2.3522", city |-> UNKNOWN_CITY,
            tiers |-> {"offline", "online"}]
  /\ "48.8566,2.3522" \notin DOMAIN fp_cache
  /\ store = << {<<"41.9,12.5", "Rome">>} >>

\* C23: a FileProcessor built over a geocache.json that cannot be read or
\* parsed is built all the same, with empty caches: its construction does
\* not raise into the job.
C23_LoadFailureNonFatal ==
  [][ (CallStep /\ geo'.by = "load" /\ store # <<>> /\ ~readable) =>
        /\ ~raised'
        /\ fp_cache' = <<>> /\ lh_cache' = <<>>
  ]_vars

\* The coordinate a key was made from.
CoordOf(key) == CHOOSE c \in Coords : Key(c) = key

\* The name the first tier that answers gives for the key now.
FirstName(key) ==
  IF env.offline THEN OfflineName(CoordOf(key)) ELSE OnlineName(CoordOf(key))

\* C24: a call that misses its dict while a tier answers and the write of
\* geocache.json fails returns the city the tier gave: not the sentinel,
\* and not an exception.
C24_WriteFailureNonFatal ==
  [][ (/\ CallStep /\ geo'.by \in {"fp", "lh"}
       /\ geo'.key \notin DOMAIN CacheOf(geo'.by)
       /\ (env.offline \/ env.online) /\ ~env.disk) =>
        (~raised' /\ geo'.city = FirstName(geo'.key))
  ]_vars

C26_NearestFirst ==
  LET dist(i) == Abs(near.pts[i][1] - near.ts)
  IN IF near.pts = <<>>
     THEN near.best = <<>> /\ near.city \in {"", UNKNOWN_CITY}
     ELSE \E i \in DOMAIN near.pts :
            /\ near.best = <<near.pts[i][2]>>
            /\ \A j \in DOMAIN near.pts : dist(j) >= dist(i)
            /\ \A j \in 1..(i - 1) : dist(j) > dist(i)

\* Points at the times 0 < 2 < 4 and the query 1, as far from 0 as from 2:
\* the point of time 0 was taken.
C26_Witness ==
  /\ near.ts = 1 /\ near.pts = <<P0, P2, P4>>
  /\ near.best = <<PARIS>> /\ near.city = "Paris"

SortedUnique(pts) ==
  /\ \A i, j \in DOMAIN pts : i < j => pts[i][1] <= pts[j][1]
  /\ \A i, j \in DOMAIN pts : i # j => pts[i] # pts[j]

\* C28: the points of every month in the cache and the points of the
\* global index hold no point twice and are sorted by time; and the global
\* index is built once.
C28_IndexSortedUnique ==
  /\ \A m \in DOMAIN month_hist_cache : SortedUnique(month_hist_cache[m])
  /\ global_pts # <<>> => SortedUnique(global_pts[1])
  /\ parsed.glob <= 1

\* The file of the call has coordinates: GPS in its EXIF for a photo, in
\* the .srt next to it for a video.
CoordFound(inp) ==
  IF Lower(inp.f.ext) \in Range(PHOTO_EXT) THEN inp.f.gps # NoCoords
  ELSE IF Lower(inp.f.ext) \in Range(VIDEO_EXT)
  THEN inp.srt \notin {"none", NoCoords}
  ELSE FALSE

\* C29: process_file returns location_found = True only for a file that
\* has coordinates, or, in archive mode, for one the month archive gave a
\* city; not when there are no coordinates and the archive gave nothing,
\* and not when only the global fallback gave the city.
C29_ConfirmedLocation ==
  extracted # <<>> =>
    LET inp == file_in[1]
    IN extracted[1].result.location_found =>
         \/ CoordFound(inp)
         \/ inp.use_archive /\ inp.f.arch \notin {UNKNOWN_CITY, ""}

\* C30: for a photo that has one of the three EXIF dates, the date
\* process_file returns, which names the year and date folders, and the
\* month whose archive it asks are those of the first of the three that is
\* there; the modification time is used when none is.
C30_CaptureTime ==
  extracted # <<>> =>
    LET f == file_in[1].f
        tags == <<f.exif.orig, f.exif.digit, f.exif.dt>>
        there == {i \in 1..3 : tags[i] # <<>>}
        first == tags[CHOOSE i \in there : \A j \in there : i <= j][1].date
    IN IF Lower(f.ext) \in Range(PHOTO_EXT) /\ there # {}
       THEN /\ extracted[1].result.dt = first
            /\ extracted[1].month = <<first.year, first.month>>
       ELSE extracted[1].result.dt = f.mtime

\* C34: when copy_files has been through its walk, stopped or not, the
\* files it counted in processed are each in one of copied, skipped and
\* errors: processed = copied + skipped + errors.
C34_CountersAddUp ==
  \A j \in Jobs :
    (w[j].pc = "walk" /\ (w[j].at = End \/ w[j].summary.stopped)) =>
      w[j].summary.processed =
        w[j].summary.copied + w[j].summary.skipped + w[j].summary.errors

\* C35: over a source tree that does not change, current_copied never
\* exceeds current_total while current_total is there, and when the job has
\* ended current_copied is the copied count of the job's result.
C35_ProgressWithinTotal ==
  /\ (current_total # <<>> /\ current_copied # <<>>) =>
       current_copied[1] <= current_total[1]
  /\ (~running /\ last_result # <<>> /\ current_total # <<>>) =>
       current_copied = <<last_result[1].copied>>

\* C36: a start() called while a job is running launches nothing and
\* leaves the running flag, the worker, its stop signal, current_total,
\* current_copied, last_started, last_result and the event log as they
\* were; last_error is all it writes.
C36_RejectedStartFrame ==
  [][ (running /\ (njobs' # njobs \/ (last_error' = ALREADY_RUNNING
                                        /\ last_error # ALREADY_RUNNING))) =>
        /\ last_error' = ALREADY_RUNNING
        /\ UNCHANGED << running, thread, stop_event, ev_set, w, njobs,
                        current_total, current_copied, last_started,
                        last_result, events >> ]_vars

\* start() was rejected while the first job was at work on its file.
C36_Witness ==
  /\ running /\ last_error = ALREADY_RUNNING /\ njobs = 1
  /\ w[1].pc = "walk" /\ w[1].at # End

\* C38: the worker of a job appends its events (progress, job-level
\* error, notification result) while the running flag of its job is still
\* set, so that once a start() has reset the log, the log holds events of
\* the newest job only, however the end of a worker and the next start()
\* interleave.
C38_NoEventLeak ==
  /\ [](appended # <<>> =>
          \A i \in DOMAIN events : events[i] \in
             { JobEv(k, njobs) : k \in {"copied", "skipped", "error",
                                         "stopped", "info"} })
  /\ [][ events' # events =>
          \/ caller = "reset"
          \/ running /\ running' /\ wk.pc \notin {"final2", "done"} ]_vars

\* The second job has ended with its two events in the log, the copied file
\* and the notification, after a first job that had appended its own.
C38_Witness ==
  /\ njobs = 2 /\ wk.job = 2 /\ wk.pc = "done" /\ ~running
  /\ events = <<JobEv("copied", 2), JobEv("info", 2)>>

\* The drive's files whose lower-cased extension is among exts.
FlashCount(exts) ==
  Cardinality({i \in DOMAIN flash.files : Lower(flash.files[i].ext) \in exts})

\* C31: the kind of a drive follows the precedence table, first match
\* wins, for every combination of the six signals: a .lrf file gives
\* "Pocket" whatever else there is; else the brand prefix with a sidecar
\* gives "Drone"; else a detected camera gives "Foto"; else images alone
\* give "Foto", videos alone "Drone", both or neither "Foto".
C31_FlashPrecedence ==
  /\ \A i, v \in 0..MaxFlashFiles, p, l, s, c \in BOOLEAN :
       classify_flash(i, v, p, l, s, c) =
         CASE l -> "Pocket"
           [] ~l /\ p /\ s -> "Drone"
           [] ~l /\ ~(p /\ s) /\ c -> "Foto"
           [] ~l /\ ~(p /\ s) /\ ~c /\ v > 0 /\ i = 0 -> "Drone"
           [] OTHER -> "Foto"
  /\ (flash.present /\ flash.kind # "") =>
       LET i == FlashCount({".jpg", ".jpeg", ".png", ".gif", ".bmp", ".tiff"})
           v == FlashCount({".mp4", ".avi", ".mov", ".mkv"})
           l == FlashCount({".lrf"}) > 0
           s == FlashCount({".srt"}) > 0
           p == \E k \in DOMAIN flash.files :
                  flash.files[k].base = "DJI_0001"
           c == \E k \in DOMAIN flash.files :
                  Lower(flash.files[k].ext) = ".jpg" /\ flash.files[k].cam
       IN flash.kind =
            IF l THEN "Pocket"
            ELSE IF p /\ s THEN "Drone"
            ELSE IF c THEN "Foto"
            ELSE IF v > 0 /\ i = 0 THEN "Drone"
            ELSE "Foto"

\* A drive with a photo of a known camera under the brand prefix and a
\* sidecar was found to be a drone's.
C31_Witness ==
  /\ flash.present /\ flash.kind = "Drone"
  /\ flash.camera /\ flash.has_dji_prefix /\ flash.has_srt /\ ~flash.has_lrf
  /\ flash.images = 1 /\ flash.videos = 0

\* The document has something no known schema accounts for; none of its
\* members gives a point.
Malformed(doc) ==
  \/ doc.shape # "timeline"
  \/ \E i \in DOMAIN doc.records : doc.records[i].kind # "visit"

NoValidPoint(doc) ==
  \/ doc.shape # "timeline"
  \/ \A i \in DOMAIN doc.records : doc.records[i].kind # "visit"

\* C32: with a month document that is malformed or has a shape or a member
\* no known schema accounts for, the files of the month are copied all the
\* same, none is counted in errors, the walk goes on to the last of them,
\* and the month lookup gives no points when no member of the document
\* gives one.
C32_ParseFailureNoPoints ==
  (Malformed(parse.doc) /\ parse.c.processed > 0) =>
     /\ ~parse.last.raised
     /\ parse.c.errors = 0
     /\ parse.c.copied = parse.c.processed
     /\ NoValidPoint(parse.doc) => parse.last.pts = <<>>

\* C33: every run the watcher starts after an earlier run of its own
\* begins no less than COOLDOWN_SEC seconds after that run ended,
\* COOLDOWN_SEC taken from the configuration the new run is started with;
\* and every run is started on a signature other than the last one acted
\* on, never on the first signature observed.
C33_CooldownOfNewConfig ==
  watch.started # <<>> =>
    LET r == watch.started[1]
    IN /\ (r.valid /\ r.previous > 0) => r.since >= r.COOLDOWN_SEC
       /\ r.last_sig # <<>>
       /\ r.sig # r.last_sig[1]

\* The lock a thread is waiting for, "none" when it waits for none.
WaitsFor(t) ==
  CASE t = "caller" /\ caller = "reset" -> "elock"
    [] t = "worker" /\ wk.pc \in {"cb", "result", "exc", "final"} -> "lock"
    [] t = "worker" /\ wk.pc \in {"ap", "excev", "notify"} -> "elock"
    [] OTHER -> "none"

HolderOf(l) == IF l = "lock" THEN lock ELSE elock

\* A thread waits for a lock whose holder is itself or waits for a lock
\* the thread holds.
Deadlocked ==
  \E t \in {"caller", "worker"} :
    /\ WaitsFor(t) # "none"
    /\ LET h == HolderOf(WaitsFor(t))
       IN \/ h = t
          \/ /\ h \in {"caller", "worker"}
             /\ WaitsFor(h) # "none"
             /\ HolderOf(WaitsFor(h)) = t

\* C37: start(), stop(), snapshot(), the events reader and the worker
\* never deadlock: a thread that takes the job lock does not hold the
\* events lock, none waits for the job lock while it holds the events
\* lock, no two threads wait for each other, and each lock that is taken
\* is released again.
C37_NoDeadlock ==
  /\ [](~Deadlocked)
  /\ [](\A t \in {"caller", "worker"} :
          elock = t => WaitsFor(t) # "lock")
  /\ [][ (lock' # lock /\ lock' # "free") => elock # lock' ]_vars
  /\ [](lock # "free" => <>(lock = "free"))
  /\ [](elock # "free" => <>(elock = "free"))

\* start() holds the job lock and waits for the events lock while the
\* events reader holds it and the worker of the job before has ended.
C37_Witness ==
  /\ lock = "caller" /\ caller = "reset"
  /\ elock = "evreader"
  /\ njobs = 1 /\ wk.pc = "done"

====
